---- MODULE Spec2Model ----
(***************************************************************************)
(* Editing layer of the physics sandbox: the sandbox context (selection,   *)
(* clipboard, undo/redo command history, reset) and the canvas pointer     *)
(* state machine that commits edits through it.                            *)
(*                                                                         *)
(* Coordinates are world pixels.  Entities keep only their x coordinate    *)
(* (the y offsets that paste and duplicate add are dropped); only the      *)
(* pointer has a y coordinate (handles sit above the line).  The           *)
(* camera is the identity (zoom 1, no offset), so screen deltas equal      *)
(* world deltas.  The simulation is paused: no physics step moves a body.  *)
(* Angles are counted in units of 45 degrees, modulo 8.                    *)
(***************************************************************************)
EXTENDS Integers, Sequences, FiniteSets, TLC

\* ------------------------------------------------------------------ bounds
MaxX == 1          \* pointer lattice: x in {0, GridPx, .., MaxX * GridPx}, GridPx = 2 * GridHalf
MaxBodies == 2     \* body objects ever created
MaxFields == 1     \* field regions ever created
MaxCons == 1       \* constraint objects ever created
MaxCommits == 2    \* Spec: actions committed in a session
MaxGestures == 2   \* Spec: pointer gestures started in a session
SceneCommits == 1  \* SpecScene: actions committed after the scene was prepared
SceneGestures == 1 \* SpecScene: gestures started after the scene was prepared
PointerCommits == 1  \* SpecPointer: actions committed after the scene was prepared
PointerGestures == 2 \* SpecPointer: gestures started after the scene was prepared
MaxOverflow == 2   \* commits past the history cap (specification SpecHistory)
NearCap == 2       \* SpecHistory: undo is pressed within NearCap of the cap

GridHalf == 15
RopeMaxBodies == 20
RopeMaxCons == 19
RopeCommits == 1
RopeGestures == 1
MaxFrames == 6     \* SpecFrame: frames run
MaxAsked == 2      \* SpecFrame: requestStep calls counted between two frames
MaxEmEdits == 2    \* SpecEm: inspector edits made to a prepared world
HugeQ == 1000      \* a finite charge (such as 1e200 C) whose square is beyond the largest double
FloatMaxQQ == 100000 \* charge products above this overflow to Infinity in K * qa * qb
NonFiniteQ == 99999  \* stands for a charge of NaN or Infinity
MaxConversions == 3 \* SpecUnits: conversions applied one after the other
MaxUnit == 50000    \* SpecUnits: largest numerator and denominator of a value
MaxMetaCalls == 3   \* SpecMeta: ensure calls and removals
ForeignId == 100    \* SpecMeta: a metadata id taken from a saved state
DrawBodies == 12    \* SpecDraw: body objects ever created
DrawCommits == 1    \* SpecDraw: actions committed in a session
DrawGestures == 2   \* SpecDraw: draws started in a session
SnapGestures == 1  \* SpecSnap: gestures started after the scene was prepared     \* half the pitch of the pointer lattice, in pixels

\* ------------------------------------------------------- program constants
HistoryCap == 200
HandleHitPx == 10
RotateHandlePx == 28
MinCircleR == 10
MinPolygonR == 12
MinSlopeLen == 60
SlopeThickness == 22
MinTrackLen == 80
TrackThickness == 18
MinTrackSegments == 10
MaxTrackSegments == 28
TrackSegmentPx == 40
MinTrackSegLen == 12
MinTrackCurve20 == 1800   \* the least curvature of a track, 90, in twentieths
MaxTrackCurve20 == 6400   \* the greatest curvature of a track, 320, in twentieths
MinConveyorW == 80
MinConveyorH == 18
MinBoxSize == 24
MinFieldW == 120
MinFieldH == 120
MinFieldRadius == 90
MinResizeFieldW == 40
PasteOffset == 48
MinAnchorDist == 24
ClickDragThreshold2 == 16
DefaultSnapStep == 20    \* metersToWorld(0.25), the snap step at construction

PointerIds == {1, 2}
NoId == 0
NoPoint == -1000

EditTools == {"select", "circle", "field_e_rect", "rod"}
ModelTools == EditTools \cup {"pan", "ruler", "protractor"}

VARIABLES
  bodyObj,          \* body objects ever created (they outlive removal: closures hold them)
  conObj,           \* constraint objects ever created
  worldBodies,      \* engine.world bodies, in composite order
  worldCons,        \* engine.world constraints, in composite order
  fields,           \* FieldRegion[]
  selected,         \* SelectedEntity
  selectedBodyIds,  \* string[]
  undoStack,        \* undoStackRef.current
  redoStack,        \* redoStackRef.current
  clipboard,        \* clipboardRef.current
  interaction,      \* interactionRef.current
  measurement,      \* measurementRef.current
  tool,             \* active tool
  resetPending,     \* resetNonce was bumped and the engine effect has not run yet
  fresh,            \* createId / Matter id counters
  scope,            \* what the session may still do: its pointers, tools and budgets
  hist,             \* observer: the last operations and the states around them
  settings,         \* SandboxProvider state: snapEnabled, snapStep (px), isRunning
  settingsRef,      \* settingsRef.current, as the frame callback reads it
  stepRequested,    \* stepRequestedRef.current
  frame,            \* observer: the frames run and the physics steps performed
  world,            \* a physics world handed to the EM and metadata functions
  probe             \* observer: the last call of a library function and its result

sceneVars == <<bodyObj, conObj, worldBodies, worldCons, fields, selected, selectedBodyIds>>
historyVars == <<undoStack, redoStack>>
editorVars == <<bodyObj, conObj, worldBodies, worldCons, fields, selected, selectedBodyIds,
                undoStack, redoStack, clipboard, interaction, measurement, tool,
                resetPending, fresh, scope, hist>>
vars == <<bodyObj, conObj, worldBodies, worldCons, fields, selected, selectedBodyIds,
          undoStack, redoStack, clipboard, interaction, measurement, tool,
          resetPending, fresh, scope, hist,
          settings, settingsRef, stepRequested, frame, world, probe>>

\* ----------------------------------------------------------------- helpers
Max(a, b) == IF a >= b THEN a ELSE b
Min(a, b) == IF a <= b THEN a ELSE b
Abs(a) == IF a >= 0 THEN a ELSE -a
Front(s) == SubSeq(s, 1, Len(s) - 1)
Last(s) == s[Len(s)]
Range(s) == {s[i] : i \in 1..Len(s)}

RECURSIVE SeqFilterOut(_, _)
SeqFilterOut(s, bad) ==
  IF s = <<>> THEN <<>>
  ELSE IF Head(s) \in bad THEN SeqFilterOut(Tail(s), bad)
  ELSE <<Head(s)>> \o SeqFilterOut(Tail(s), bad)

\* Array.from(new Set(arr)): first occurrences, in order
RECURSIVE Unique(_)
Unique(s) ==
  IF s = <<>> THEN <<>>
  ELSE <<Head(s)>> \o Unique(SeqFilterOut(Tail(s), {Head(s)}))

\* Matter.Composite.remove of one object: the first occurrence is spliced out
RECURSIVE RemoveFirst(_, _)
RemoveFirst(s, e) ==
  IF s = <<>> THEN <<>>
  ELSE IF Head(s) = e THEN Tail(s)
  ELSE <<Head(s)>> \o RemoveFirst(Tail(s), e)

RECURSIVE RemoveAll(_, _)
RemoveAll(s, es) ==
  IF es = <<>> THEN s ELSE RemoveAll(RemoveFirst(s, Head(es)), Tail(es))

\* ------------------------------------------------------------------- scene
SelNone == [kind |-> "none", id |-> NoId]
SelBody(id) == [kind |-> "body", id |-> id]
SelField(id) == [kind |-> "field", id |-> id]

Scene ==
  [bodyObj |-> bodyObj, conObj |-> conObj, worldBodies |-> worldBodies,
   worldCons |-> worldCons, fields |-> fields, selected |-> selected,
   selectedBodyIds |-> selectedBodyIds]

SetScene(sc) ==
  /\ bodyObj' = sc.bodyObj
  /\ conObj' = sc.conObj
  /\ worldBodies' = sc.worldBodies
  /\ worldCons' = sc.worldCons
  /\ fields' = sc.fields
  /\ selected' = sc.selected
  /\ selectedBodyIds' = sc.selectedBodyIds

\* findBodyByMetaId: the metadata id of a body object is its object id here
findBodyByMetaId(sc, id) == IF id \in Range(sc.worldBodies) THEN id ELSE NoId

\* what the claims call the entity set: the live bodies and constraints with
\* their geometry, metadata and rope group, and the field list in order
Entities(sc) ==
  [bodies |-> [b \in Range(sc.worldBodies) |-> sc.bodyObj[b]],
   cons |-> [c \in Range(sc.worldCons) |-> sc.conObj[c]],
   fields |-> sc.fields]

SelectionOf(sc) == [selected |-> sc.selected, selectedBodyIds |-> sc.selectedBodyIds]

\* --------------------------------------------------------------- selection
selectBody(sc, bodyId, additive, toggle) ==
  IF ~additive
  THEN [sc EXCEPT !.selected = SelBody(bodyId), !.selectedBodyIds = <<bodyId>>]
  ELSE LET prev == Unique(sc.selectedBodyIds)
           arr == IF toggle /\ bodyId \in Range(prev)
                  THEN SeqFilterOut(prev, {bodyId})
                  ELSE IF bodyId \in Range(prev) THEN prev ELSE Append(prev, bodyId)
       IN IF arr = <<>>
          THEN [sc EXCEPT !.selected = SelNone, !.selectedBodyIds = <<>>]
          ELSE [sc EXCEPT !.selected = IF bodyId \in Range(arr) THEN SelBody(bodyId)
                                       ELSE SelBody(Last(arr)),
                          !.selectedBodyIds = arr]

setSelectedBodies(sc, bodyIds, primaryId) ==
  LET unique == Unique(bodyIds)
      primary == IF primaryId # NoId THEN primaryId
                 ELSE IF unique # <<>> THEN Last(unique) ELSE NoId
  IN [sc EXCEPT !.selectedBodyIds = unique,
                !.selected = IF primary = NoId THEN SelNone ELSE SelBody(primary)]

selectField(sc, fieldId) ==
  [sc EXCEPT !.selected = SelField(fieldId), !.selectedBodyIds = <<>>]

clearSelection(sc) ==
  [sc EXCEPT !.selected = SelNone, !.selectedBodyIds = <<>>]

\* faulty variant: the list of selected body ids is emptied whatever the selection
IdsOfNone(sel) == <<>>

\* setSelectedBodyIds(before.kind === "body" ? [before.id] : [])
IdsOf(sel) == IF sel.kind = "body" THEN <<sel.id>> ELSE <<>>

\* ------------------------------------------------------------ world access
addWorldObjects(sc, bodies, constraints) ==
  [sc EXCEPT !.worldBodies = @ \o bodies, !.worldCons = @ \o constraints]

\* faulty variant: the constraints stay in the world
removeBodiesOnly(sc, bodies, constraints) ==
  [sc EXCEPT !.worldBodies = RemoveAll(@, bodies)]

removeWorldObjects(sc, bodies, constraints) ==
  [sc EXCEPT !.worldCons = RemoveAll(@, constraints),
             !.worldBodies = RemoveAll(@, bodies)]

\* BodyState as captured by captureBodyState
captureBodyState(sc, b) == sc.bodyObj[b]

applyBodyState(body, state, opts) ==
  [body EXCEPT !.x = IF opts.transform THEN state.x ELSE @,
               !.angle = IF opts.transform THEN state.angle ELSE @,
               !.r = IF opts.shape /\ state.r > 0 /\ @ > 0 THEN state.r ELSE @,
               !.charged = state.charged]

PropsOnly == [transform |-> FALSE, shape |-> FALSE, kinematics |-> FALSE]

\* fields.map(f => f.id === fieldId ? next : f)
ReplaceField(fs, fieldId, next) ==
  [i \in 1..Len(fs) |-> IF fs[i].id = fieldId THEN next ELSE fs[i]]

FilterField(fs, fieldId) == SelectSeq(fs, LAMBDA f : f.id # fieldId)

\* next.splice(Math.min(idx, next.length), 0, field); idx is 0-based
SpliceField(fs, idx, field) ==
  LET k == Min(idx, Len(fs))
  IN SubSeq(fs, 1, k) \o <<field>> \o SubSeq(fs, k + 1, Len(fs))

FieldIndex(fs, fieldId) ==
  IF \E i \in 1..Len(fs) : fs[i].id = fieldId
  THEN (CHOOSE i \in 1..Len(fs) : fs[i].id = fieldId /\ \A j \in 1..(i - 1) : fs[j].id # fieldId) - 1
  ELSE -1

FindField(fs, fieldId) ==
  IF FieldIndex(fs, fieldId) >= 0 THEN fs[FieldIndex(fs, fieldId) + 1] ELSE [id |-> NoId]

\* ------------------------------------------------- editor actions (closures)
\* The redo closure of an EditorAction, by the entry point that built it.
RedoEffect(a, sc) ==
  CASE a.type = "worldAdd" ->
         [addWorldObjects(sc, a.bodies, a.cons)
            EXCEPT !.selected = a.selAfter, !.selectedBodyIds = IdsOf(a.selAfter)]
    [] a.type = "fieldAdd" ->
         [sc EXCEPT !.fields = Append(@, a.field), !.selected = a.selAfter,
                    !.selectedBodyIds = <<>>]
    [] a.type = "fieldDelete" ->
         [sc EXCEPT !.fields = FilterField(@, a.fieldId), !.selected = SelNone,
                    !.selectedBodyIds = <<>>]
    [] a.type = "bodyState" ->
         IF findBodyByMetaId(sc, a.bodyId) = NoId THEN sc
         ELSE [sc EXCEPT !.bodyObj[a.bodyId] = applyBodyState(@, a.after, a.apply)]
    [] a.type = "fieldChange" ->
         [sc EXCEPT !.fields = ReplaceField(@, a.fieldId, a.after)]
    [] a.type = "delete" ->
         [removeWorldObjects(sc, a.bodies, a.cons)
            EXCEPT !.selected = SelNone, !.selectedBodyIds = <<>>]

\* The undo closure of an EditorAction.
UndoEffect(a, sc) ==
  CASE a.type = "worldAdd" ->
         [removeWorldObjects(sc, a.bodies, a.cons)
            EXCEPT !.selected = a.selBefore, !.selectedBodyIds = IdsOf(a.selBefore)]
    [] a.type = "fieldAdd" ->
         [sc EXCEPT !.fields = FilterField(@, a.field.id), !.selected = a.selBefore,
                    !.selectedBodyIds = IdsOf(a.selBefore)]
    [] a.type = "fieldDelete" ->
         [sc EXCEPT !.fields = SpliceField(@, a.idx, a.field), !.selected = a.selBefore,
                    !.selectedBodyIds = IdsOf(a.selBefore)]
    [] a.type = "bodyState" ->
         IF findBodyByMetaId(sc, a.bodyId) = NoId THEN sc
         ELSE [sc EXCEPT !.bodyObj[a.bodyId] = applyBodyState(@, a.before, a.apply)]
    [] a.type = "fieldChange" ->
         [sc EXCEPT !.fields = ReplaceField(@, a.fieldId, a.before)]
    [] a.type = "delete" ->
         [addWorldObjects(sc, a.bodies, a.cons)
            EXCEPT !.selected = a.selBefore, !.selectedBodyIds = IdsOf(a.selBefore)]

\* ----------------------------------------------------------------- history
History == [undo |-> undoStack, redo |-> redoStack]

\* faulty variant: on overflow the newest action is dropped instead of the oldest
pushHistoryDropsNewest(h, action) ==
  LET pushed == Append(h.undo, action)
  IN [undo |-> IF Len(pushed) > HistoryCap THEN Front(pushed) ELSE pushed,
      redo |-> <<>>]

pushHistory(h, action) ==
  LET pushed == Append(h.undo, action)
  IN [undo |-> IF Len(pushed) > HistoryCap THEN Tail(pushed) ELSE pushed,
      redo |-> <<>>]

\* faulty variant: the forward effect runs twice
CommitRunsTwice(h, sc, action) ==
  [h |-> pushHistory(h, action), sc |-> RedoEffect(action, RedoEffect(action, sc))]

\* action.redo(); pushHistory(action): every commit entry point ends this way
Commit(h, sc, action) ==
  [h |-> pushHistory(h, action), sc |-> RedoEffect(action, sc)]

\* faulty variant: the action stays on the undo stack
undoKeepsTop(h, sc) ==
  IF h.undo = <<>> THEN [h |-> h, sc |-> sc]
  ELSE LET action == Last(h.undo)
       IN [h |-> [undo |-> h.undo, redo |-> Append(h.redo, action)],
           sc |-> UndoEffect(action, sc)]

undo(h, sc) ==
  IF h.undo = <<>> THEN [h |-> h, sc |-> sc]
  ELSE LET action == Last(h.undo)
       IN [h |-> [undo |-> Front(h.undo), redo |-> Append(h.redo, action)],
           sc |-> UndoEffect(action, sc)]

\* faulty variant: the stacks move but the forward effect does not run
redoSkipsEffect(h, sc) ==
  IF h.redo = <<>> THEN [h |-> h, sc |-> sc]
  ELSE LET action == Last(h.redo)
       IN [h |-> [undo |-> Append(h.undo, action), redo |-> Front(h.redo)],
           sc |-> sc]

redo(h, sc) ==
  IF h.redo = <<>> THEN [h |-> h, sc |-> sc]
  ELSE LET action == Last(h.redo)
       IN [h |-> [undo |-> Append(h.undo, action), redo |-> Front(h.redo)],
           sc |-> RedoEffect(action, sc)]

\* ------------------------------------------------------------ machine state
\* Everything a handler reads or writes, as one record; log lists the ids of
\* the actions the handler committed (an observer field, reset per handler).
Machine ==
  [sc |-> Scene, h |-> History, clip |-> clipboard, inter |-> interaction,
   meas |-> measurement, tool |-> tool, fresh |-> fresh, log |-> <<>>,
   snap |-> [enabled |-> settings.snapEnabled, step |-> settings.snapStep]]

NoClip == [kind |-> "none"]
NoInteraction == [kind |-> "none"]
NoMeasurement == [kind |-> "none"]

\* a circle body; shape, w and h are what setBodyShape records (w and h of a
\* circle or polygon are 0, r of a rectangle is 0)
NewBody(x, r) ==
  [x |-> x, r |-> r, angle |-> 0, charged |-> FALSE, rope |-> NoId,
   shape |-> "circle", w |-> 0, h |-> 0]

\* Matter.Bodies.polygon / Matter.Bodies.rectangle with setBodyShape
NewPolygon(x, r) == [NewBody(x, r) EXCEPT !.shape = "polygon"]
NewBox(x, w, h) == [NewBody(x, 0) EXCEPT !.shape = "rectangle", !.w = w, !.h = h]

\* snapshotBody: the rope group is not part of a snapshot
snapshotBody(sc, b) ==
  [x |-> sc.bodyObj[b].x, r |-> sc.bodyObj[b].r, angle |-> sc.bodyObj[b].angle,
   charged |-> sc.bodyObj[b].charged, shape |-> sc.bodyObj[b].shape,
   w |-> sc.bodyObj[b].w, h |-> sc.bodyObj[b].h]

\* createBodyFromSnapshot(snapshot, {position}) / (snapshot, {offset})
createBodyFromSnapshot(snap, position, offset) ==
  [x |-> IF position # NoPoint THEN position ELSE snap.x + offset,
   r |-> snap.r, angle |-> snap.angle, charged |-> snap.charged, rope |-> NoId,
   shape |-> snap.shape, w |-> snap.w, h |-> snap.h]

\* a new action takes the next action id
Stamp(m, action) == [action EXCEPT !.id = m.fresh.act]

CommitAction(m, action) ==
  LET a == Stamp(m, action)
      res == Commit(m.h, m.sc, a)
  IN [m EXCEPT !.h = res.h, !.sc = res.sc, !.fresh.act = @ + 1, !.log = Append(@, [id |-> a.id, at |-> [sc |-> m.sc, h |-> m.h]])]

commitWorldAdd(m, bodies, constraints, selectionBefore, selectionAfter) ==
  CommitAction(m, [id |-> NoId, type |-> "worldAdd", bodies |-> bodies, cons |-> constraints,
                   selBefore |-> selectionBefore, selAfter |-> selectionAfter])

commitFieldAdd(m, field, selectionBefore, selectionAfter) ==
  CommitAction(m, [id |-> NoId, type |-> "fieldAdd", field |-> field,
                   selBefore |-> selectionBefore, selAfter |-> selectionAfter])

commitFieldChange(m, fieldId, before, after) ==
  CommitAction(m, [id |-> NoId, type |-> "fieldChange", fieldId |-> fieldId,
                   before |-> before, after |-> after])

commitBodyStateChange(m, bodyId, before, after, apply) ==
  CommitAction(m, [id |-> NoId, type |-> "bodyState", bodyId |-> bodyId,
                   before |-> before, after |-> after, apply |-> apply])

deleteFieldById(m, fieldId) ==
  LET idx == FieldIndex(m.sc.fields, fieldId)
  IN IF idx < 0 THEN m
     ELSE CommitAction(m, [id |-> NoId, type |-> "fieldDelete", fieldId |-> fieldId,
                           idx |-> idx, field |-> m.sc.fields[idx + 1],
                           selBefore |-> m.sc.selected])

\* constraints of the world attached to each body of bs, in iteration order
RECURSIVE AttachedCons(_, _)
AttachedCons(sc, bs) ==
  IF bs = <<>> THEN <<>>
  ELSE SelectSeq(sc.worldCons,
                 LAMBDA c : sc.conObj[c].a = Head(bs) \/ sc.conObj[c].b = Head(bs))
       \o AttachedCons(sc, Tail(bs))

\* faulty variant: a rope is found from its selected segments only, never
\* through the constraints of a selected endpoint
deleteSelectedSegmentsOnly(m) ==
  IF m.sc.selected.kind = "field" THEN deleteFieldById(m, m.sc.selected.id)
  ELSE
    LET sc == m.sc
        baseIds == IF Len(sc.selectedBodyIds) > 0 THEN sc.selectedBodyIds
                   ELSE IF sc.selected.kind = "body" THEN <<sc.selected.id>> ELSE <<>>
        direct == Unique(SelectSeq(baseIds, LAMBDA id : findBodyByMetaId(sc, id) # NoId))
        directCons == Unique(AttachedCons(sc, direct))
        ropeGroups == {sc.bodyObj[b].rope : b \in Range(direct)} \ {NoId}
        bodies == Unique(direct \o SelectSeq(sc.worldBodies,
                                             LAMBDA b : sc.bodyObj[b].rope \in ropeGroups))
        cons == Unique(directCons \o SelectSeq(sc.worldCons,
                                               LAMBDA c : sc.conObj[c].rope \in ropeGroups))
    IN IF baseIds = <<>> THEN m
       ELSE CommitAction(m, [id |-> NoId, type |-> "delete", bodies |-> bodies, cons |-> cons,
                             selBefore |-> sc.selected])

deleteSelected(m) ==
  IF m.sc.selected.kind = "field" THEN deleteFieldById(m, m.sc.selected.id)
  ELSE
    LET sc == m.sc
        baseIds == IF Len(sc.selectedBodyIds) > 0 THEN sc.selectedBodyIds
                   ELSE IF sc.selected.kind = "body" THEN <<sc.selected.id>> ELSE <<>>
        direct == Unique(SelectSeq(baseIds, LAMBDA id : findBodyByMetaId(sc, id) # NoId))
        directCons == Unique(AttachedCons(sc, direct))
        ropeGroups == ({sc.bodyObj[b].rope : b \in Range(direct)}
                       \cup {sc.conObj[c].rope : c \in Range(directCons)}) \ {NoId}
        bodies == Unique(direct \o SelectSeq(sc.worldBodies,
                                             LAMBDA b : sc.bodyObj[b].rope \in ropeGroups))
        cons == Unique(directCons \o SelectSeq(sc.worldCons,
                                               LAMBDA c : sc.conObj[c].rope \in ropeGroups))
    IN IF baseIds = <<>> THEN m
       ELSE CommitAction(m, [id |-> NoId, type |-> "delete", bodies |-> bodies, cons |-> cons,
                             selBefore |-> sc.selected])

copySelected(m) ==
  LET sc == m.sc
  IN IF sc.selected.kind = "body" /\ Len(sc.selectedBodyIds) > 1
     THEN LET live == SelectSeq(sc.selectedBodyIds, LAMBDA id : findBodyByMetaId(sc, id) # NoId)
              snaps == [i \in 1..Len(live) |-> snapshotBody(sc, live[i])]
          IN IF Len(snaps) > 0 THEN [m EXCEPT !.clip = [kind |-> "bodies", snapshots |-> snaps]]
             ELSE m
     ELSE IF sc.selected.kind = "body"
     THEN IF findBodyByMetaId(sc, sc.selected.id) = NoId THEN m
          ELSE [m EXCEPT !.clip = [kind |-> "body", snapshot |-> snapshotBody(sc, sc.selected.id)]]
     ELSE IF sc.selected.kind = "field"
     THEN IF FieldIndex(sc.fields, sc.selected.id) < 0 THEN m
          ELSE [m EXCEPT !.clip = [kind |-> "field", field |-> FindField(sc.fields, sc.selected.id)]]
     ELSE m

\* the bodies built from snaps get the next body ids and join the heap
WithClones(m, clones) ==
  LET n == Len(clones)
      ids == [i \in 1..n |-> m.fresh.body + i - 1]
  IN [m |-> [m EXCEPT !.sc.bodyObj = [b \in DOMAIN @ \cup Range(ids) |->
                                        IF b \in DOMAIN @ THEN @[b]
                                        ELSE clones[b - m.fresh.body + 1]],
                      !.fresh.body = @ + n],
      ids |-> ids]

PasteCursorNudge == 18

\* cursor is pointerWorldRef.current.x, or NoPoint when the pointer left the canvas
paste(m, cursor) ==
  LET clip == m.clip
      before == m.sc.selected
  IN CASE clip.kind = "none" -> m
       [] clip.kind = "body" ->
            LET made == WithClones(m, <<createBodyFromSnapshot(clip.snapshot,
                                          IF cursor # NoPoint THEN cursor + PasteCursorNudge ELSE NoPoint,
                                          PasteOffset)>>)
            IN commitWorldAdd(made.m, made.ids, <<>>, before, SelBody(Last(made.ids)))
       [] clip.kind = "bodies" ->
            LET offset == IF cursor # NoPoint THEN cursor + PasteCursorNudge ELSE PasteOffset
                made == WithClones(m, [i \in 1..Len(clip.snapshots) |->
                                         createBodyFromSnapshot(clip.snapshots[i], NoPoint, offset)])
            IN commitWorldAdd(made.m, made.ids, <<>>, before, SelBody(Last(made.ids)))
       [] clip.kind = "field" ->
            LET id == m.fresh.field
                next == [clip.field EXCEPT !.id = id,
                                           !.x = IF cursor # NoPoint THEN cursor ELSE @ + PasteOffset]
            IN commitFieldAdd([m EXCEPT !.fresh.field = @ + 1], next, before, SelField(id))

\* faulty variant: the selected body is cloned without looking it up in the world
duplicateSelectedUnchecked(m) ==
  LET sc == m.sc
  IN IF sc.selected.kind = "body"
     THEN LET made == WithClones(m, <<createBodyFromSnapshot(snapshotBody(sc, sc.selected.id),
                                                              NoPoint, PasteOffset)>>)
          IN commitWorldAdd(made.m, made.ids, <<>>, sc.selected, SelBody(Last(made.ids)))
     ELSE m

duplicateSelected(m) ==
  LET sc == m.sc
  IN IF sc.selected.kind = "body" /\ Len(sc.selectedBodyIds) > 1
     THEN LET live == SelectSeq(sc.selectedBodyIds, LAMBDA id : findBodyByMetaId(sc, id) # NoId)
              made == WithClones(m, [i \in 1..Len(live) |->
                                       createBodyFromSnapshot(snapshotBody(sc, live[i]), NoPoint, PasteOffset)])
          IN IF live = <<>> THEN m
             ELSE commitWorldAdd(made.m, made.ids, <<>>, sc.selected, SelBody(Last(made.ids)))
     ELSE IF sc.selected.kind = "body"
     THEN IF findBodyByMetaId(sc, sc.selected.id) = NoId THEN m
          ELSE LET made == WithClones(m, <<createBodyFromSnapshot(snapshotBody(sc, sc.selected.id),
                                                                   NoPoint, PasteOffset)>>)
               IN commitWorldAdd(made.m, made.ids, <<>>, sc.selected, SelBody(Last(made.ids)))
     ELSE IF sc.selected.kind = "field"
     THEN IF FieldIndex(sc.fields, sc.selected.id) < 0 THEN m
          ELSE LET id == m.fresh.field
                   field == FindField(sc.fields, sc.selected.id)
                   next == [field EXCEPT !.id = id, !.x = @ + PasteOffset]
               IN commitFieldAdd([m EXCEPT !.fresh.field = @ + 1], next, sc.selected, SelField(id))
     ELSE m

\* BodyInspector, the isCharged toggle: capture, flip the metadata, capture, commit
toggleCharged(m, bodyId) ==
  LET before == captureBodyState(m.sc, bodyId)
      m1 == [m EXCEPT !.sc.bodyObj[bodyId].charged = ~@]
      after == captureBodyState(m1.sc, bodyId)
  IN commitBodyStateChange(m1, bodyId, before, after, PropsOnly)

undoKey(m) ==
  LET res == undo(m.h, m.sc) IN [m EXCEPT !.h = res.h, !.sc = res.sc]

redoKey(m) ==
  LET res == redo(m.h, m.sc) IN [m EXCEPT !.h = res.h, !.sc = res.sc]

\* faulty variant: only the undo stack is emptied
clearHistoryKeepsRedo(h) == [undo |-> <<>>, redo |-> h.redo]

clearHistory(h) == [undo |-> <<>>, redo |-> <<>>]

\* requestReset, up to the bump of resetNonce
requestReset(m) ==
  [m EXCEPT !.sc = [clearSelection(@) EXCEPT !.fields = <<>>],
            !.clip = NoClip,
            !.h = clearHistory(@)]

\* the engine effect keyed on resetNonce: a new, empty engine; the interaction is dropped
engineEffect(m) ==
  [m EXCEPT !.sc.worldBodies = <<>>, !.sc.worldCons = <<>>,
            !.sc.bodyObj = <<>>, !.sc.conObj = <<>>,
            !.inter = NoInteraction]

\* ------------------------------------------------------------------ canvas
\* A pointer position [x, y] in world pixels.  snapWorld is the identity
\* (snapEnabled is false by default and no handler of this model sets it).
Pt(x, y) == [x |-> x, y |-> y]

\* Math.round(v / step) * step; Math.round takes a half upwards
RoundToStep(v, step) == ((2 * v + step) \div (2 * step)) * step

\* faulty variant: the grid is never applied
snapWorldOff(m, p) == p

\* snapWorld: the identity unless snapping is enabled with a positive step
snapWorld(m, p) ==
  IF ~m.snap.enabled \/ m.snap.step <= 0 THEN p
  ELSE Pt(RoundToStep(p.x, m.snap.step), RoundToStep(p.y, m.snap.step))
Dist2(p, x, y) == (p.x - x) * (p.x - x) + (p.y - y) * (p.y - y)
HitR2 == HandleHitPx * HandleHitPx

\* Matter.Query.point: strictly inside the radius of a circle (a polygon is
\* taken by its circumscribed circle), strictly inside a rectangle
BodyContains(sc, b, p) ==
  IF sc.bodyObj[b].shape = "rectangle"
  THEN 2 * Abs(p.x - sc.bodyObj[b].x) < sc.bodyObj[b].w /\ 2 * Abs(p.y) < sc.bodyObj[b].h
  ELSE Dist2(p, sc.bodyObj[b].x, 0) < sc.bodyObj[b].r * sc.bodyObj[b].r

\* the last body of the world under the point, or NoId
queryBodyAtPoint(sc, p) ==
  LET found == SelectSeq(sc.worldBodies, LAMBDA b : BodyContains(sc, b, p))
  IN IF found = <<>> THEN NoId ELSE Last(found)

isPointInField(f, p) ==
  IF f.shape = "rect" THEN 2 * Abs(p.x - f.x) <= f.w /\ 2 * Abs(p.y) <= f.h
  ELSE Dist2(p, f.x, 0) <= f.radius * f.radius

\* the topmost (last) field under the point, or NoId
queryFieldAtPoint(fs, p) ==
  LET found == SelectSeq(fs, LAMBDA f : isPointInField(f, p))
  IN IF found = <<>> THEN NoId ELSE Last(found).id

\* Math.atan2 of a direction that is a multiple of 45 degrees, in units of 45 degrees
Dir8(dx, dy) ==
  CASE dy = 0 /\ dx >= 0 -> 0
    [] dy > 0 /\ dx = dy -> 1
    [] dy > 0 /\ dx = 0 -> 2
    [] dy > 0 /\ dx = -dy -> 3
    [] dy = 0 /\ dx < 0 -> 4
    [] dy < 0 /\ dx = dy -> 5
    [] dy < 0 /\ dx = 0 -> 6
    [] dy < 0 /\ dx = -dy -> 7

\* point constraints (bodyA, no bodyB, pointB) whose anchor is under the pointer
AnchorsAt(sc, p) ==
  SelectSeq(sc.worldCons,
            LAMBDA c : sc.conObj[c].b = NoId /\ Dist2(p, sc.conObj[c].pb, 0) <= HitR2)

\* the select tool's pointer-down, after the anchor test
SelectDown(m, pid, p, shiftKey) ==
  LET sc == m.sc
      sel == sc.selected
      field == IF sel.kind = "field" /\ FieldIndex(sc.fields, sel.id) >= 0
               THEN FindField(sc.fields, sel.id) ELSE [id |-> NoId]
      body == IF sel.kind = "body" /\ Len(sc.selectedBodyIds) <= 1
              THEN findBodyByMetaId(sc, sel.id) ELSE NoId
      bx == IF body # NoId THEN sc.bodyObj[body].x ELSE 0
      br == IF body # NoId THEN sc.bodyObj[body].r ELSE 0
      hitBody == queryBodyAtPoint(sc, p)
      hitField == queryFieldAtPoint(sc.fields, p)
      press(hit) == [kind |-> "select_press", pointerId |-> pid, startWorld |-> p,
                     shiftKey |-> shiftKey, hit |-> hit]
  IN IF field.id # NoId /\ Dist2(p, field.x, 0) <= HitR2
     THEN [m EXCEPT !.inter = [kind |-> "move_field", pointerId |-> pid, fieldId |-> field.id,
                               startWorld |-> p, startField |-> field]]
     ELSE IF field.id # NoId
             /\ \E sx \in {-1, 1}, sy \in {-1, 1} :
                  Dist2(p, field.x + sx * (field.w \div 2), sy * (field.h \div 2)) <= HitR2
     THEN [m EXCEPT !.inter = [kind |-> "resize_field", pointerId |-> pid, fieldId |-> field.id,
                               startWorld |-> p, startField |-> field]]
     ELSE IF body # NoId /\ Dist2(p, bx, -br - RotateHandlePx) <= HitR2
     THEN [m EXCEPT !.inter = [kind |-> "rotate_body", pointerId |-> pid, bodyId |-> body,
                               center |-> bx,
                               angleOffset |-> (sc.bodyObj[body].angle + 8 - Dir8(p.x - bx, p.y)) % 8]]
     ELSE IF body # NoId
             /\ \E sx \in {-1, 1}, sy \in {-1, 1} : Dist2(p, bx + sx * br, sy * br) <= HitR2
             /\ Dist2(p, bx, 0) > 0
     THEN [m EXCEPT !.inter = [kind |-> "resize_body", pointerId |-> pid, bodyId |-> body,
                               center |-> bx, startDist2 |-> Dist2(p, bx, 0),
                               initialShape |-> br]]
     ELSE IF hitBody # NoId
     THEN [m EXCEPT !.inter = press([kind |-> "body", id |-> hitBody])]
     ELSE IF hitField # NoId
     THEN [m EXCEPT !.inter = press([kind |-> "field", id |-> hitField])]
     ELSE [m EXCEPT !.inter = press([kind |-> "empty", id |-> NoId])]

DrawTools ==
  {"circle", "rectangle", "polygon", "wall", "slope", "conveyor", "track",
   "field_e_rect", "field_e_circle", "field_b_rect", "field_b_circle"}
ConstraintTools == {"rod", "spring", "rope"}
AllTools == {"select", "pan", "ruler", "protractor"} \cup DrawTools \cup ConstraintTools

\* faulty variant: a press of a constraint tool on empty canvas drops the selection
ConstraintDownClearsOnMiss(m, pid, p) ==
  LET startBody == queryBodyAtPoint(m.sc, p)
  IN IF startBody = NoId THEN [m EXCEPT !.sc = clearSelection(@)]
     ELSE [m EXCEPT !.sc = selectBody(@, startBody, FALSE, FALSE),
                    !.inter = [kind |-> "constraint", pointerId |-> pid, tool |-> m.tool,
                               startBody |-> startBody]]

\* the rod, spring and rope tools: a constraint starts on the body under the pointer
ConstraintDown(m, pid, p) ==
  LET startBody == queryBodyAtPoint(m.sc, p)
  IN IF startBody = NoId THEN m
     ELSE [m EXCEPT !.sc = selectBody(@, startBody, FALSE, FALSE),
                    !.inter = [kind |-> "constraint", pointerId |-> pid, tool |-> m.tool,
                               startBody |-> startBody]]

\* panKey: the middle button or the Alt key (e.button === 1 || e.altKey)
onPointerDown(m, pid, p, shiftKey, panKey) ==
  LET sc == m.sc
      anchors == AnchorsAt(sc, p)
  IN CASE m.tool = "pan" \/ panKey ->
            [m EXCEPT !.inter = [kind |-> "pan", pointerId |-> pid]]
       [] m.tool = "ruler" ->
            [m EXCEPT !.meas = [kind |-> "ruler", hasB |-> TRUE],
                      !.inter = [kind |-> "measure_ruler", pointerId |-> pid]]
       [] m.tool = "protractor" ->
            IF m.meas.kind = "protractor" /\ ~m.meas.hasB
            THEN [m EXCEPT !.meas = [kind |-> "protractor", hasB |-> TRUE],
                           !.inter = [kind |-> "measure_protractor", pointerId |-> pid, phase |-> 2]]
            ELSE [m EXCEPT !.meas = [kind |-> "protractor", hasB |-> FALSE],
                           !.inter = [kind |-> "measure_protractor", pointerId |-> pid, phase |-> 1]]
       [] m.tool \in DrawTools ->
            [m EXCEPT !.inter = [kind |-> "draw", pointerId |-> pid, tool |-> m.tool,
                                 startWorld |-> snapWorld(m, p),
                                 currentWorld |-> snapWorld(m, p)]]
       [] m.tool \in ConstraintTools -> ConstraintDown(m, pid, p)
       [] m.tool = "select" ->
            IF anchors # <<>>
            THEN [m EXCEPT !.inter = [kind |-> "drag_constraint_anchor", pointerId |-> pid,
                                      constraint |-> Head(anchors)]]
            ELSE SelectDown(m, pid, p, shiftKey)

\* the square root, kept to whole pixels
Sqrt(n) == CHOOSE v \in 0..n : v * v <= n /\ (v + 1) * (v + 1) > n

MinBodyScale5 == 1    \* the lower clamp of a body resize, 0.2, in fifths
MaxBodyScale == 6

\* init.radius * desired, desired = clamp(dist / startDist, 0.2, 6), from squared distances
ScaledRadius(r0, dist2, startDist2) ==
  IF 25 * dist2 < MinBodyScale5 * MinBodyScale5 * startDist2 THEN (MinBodyScale5 * r0) \div 5
  ELSE IF dist2 > MaxBodyScale * MaxBodyScale * startDist2 THEN MaxBodyScale * r0
  ELSE Sqrt((r0 * r0 * dist2) \div startDist2)

\* select_press leaving the 4 px dead zone
PressMove(m, pid, p) ==
  LET i == m.inter
      sc == m.sc
  IN CASE i.hit.kind = "body" ->
            LET clickedId == i.hit.id
                nextIds == IF i.shiftKey THEN Unique(Append(sc.selectedBodyIds, clickedId))
                           ELSE <<clickedId>>
                sc2 == IF Len(nextIds) = 1 THEN selectBody(sc, clickedId, FALSE, FALSE)
                       ELSE setSelectedBodies(sc, nextIds, clickedId)
                live == SelectSeq(nextIds, LAMBDA id : findBodyByMetaId(sc, id) # NoId)
                starts == [k \in 1..Len(live) |-> [id |-> live[k], x |-> sc.bodyObj[live[k]].x]]
            IN [m EXCEPT !.sc = sc2,
                         !.inter = [kind |-> "move_selection", pointerId |-> pid,
                                    startWorld |-> i.startWorld, primaryId |-> clickedId,
                                    starts |-> starts]]
       [] i.hit.kind = "field" ->
            IF FieldIndex(sc.fields, i.hit.id) < 0 THEN m
            ELSE [m EXCEPT !.sc = selectField(@, i.hit.id),
                           !.inter = [kind |-> "move_field", pointerId |-> pid, fieldId |-> i.hit.id,
                                      startWorld |-> i.startWorld,
                                      startField |-> FindField(sc.fields, i.hit.id)]]
       [] i.hit.kind = "empty" ->
            [m EXCEPT !.inter = [kind |-> "box_select", pointerId |-> pid,
                                 startWorld |-> i.startWorld,
                                 currentWorld |-> snapWorld(m, p),
                                 additive |-> i.shiftKey,
                                 baseSelection |-> IF i.shiftKey THEN sc.selectedBodyIds ELSE <<>>]]

\* faulty variant: only the first body of the selection follows the pointer
MoveBodiesFirstOnly(sc, starts, dx) ==
  IF starts = <<>> \/ findBodyByMetaId(sc, Head(starts).id) = NoId THEN sc
  ELSE [sc EXCEPT !.bodyObj[Head(starts).id].x = Head(starts).x + dx]

RECURSIVE MoveBodies(_, _, _)
MoveBodies(sc, starts, dx) ==
  IF starts = <<>> THEN sc
  ELSE LET s == Head(starts)
           sc2 == IF findBodyByMetaId(sc, s.id) = NoId THEN sc
                  ELSE [sc EXCEPT !.bodyObj[s.id].x = s.x + dx]
       IN MoveBodies(sc2, Tail(starts), dx)

\* faulty variant: a move of exactly 4 px is still inside the dead zone
InDeadZoneInclusive(i, p) ==
  Dist2(p, i.startWorld.x, i.startWorld.y) <= ClickDragThreshold2

\* dx * dx + dy * dy < 16, from the press point (the camera is the identity)
InDeadZone(i, p) ==
  Dist2(p, i.startWorld.x, i.startWorld.y) < ClickDragThreshold2

\* the displacement of a moved selection: the pointer's, or with snapping the
\* one that takes the primary body to the grid point nearest to where the
\* pointer would take it
SelectionDelta(m, p) ==
  LET i == m.inter
      dx == p.x - i.startWorld.x
      prim == SelectSeq(i.starts, LAMBDA st : st.id = i.primaryId)
  IN IF m.snap.enabled /\ prim # <<>>
     THEN snapWorld(m, Pt(Head(prim).x + dx, 0)).x - Head(prim).x
     ELSE dx

\* what a move does for each kind of interaction, for the pointer that owns it
Move(m, pid, p) ==
  LET i == m.inter
      sc == m.sc
  IN      CASE i.kind \in {"pan", "measure_ruler", "constraint"} -> m
            [] i.kind = "measure_protractor" ->
                 [m EXCEPT !.meas = [kind |-> "protractor", hasB |-> (i.phase = 2)]]
            [] i.kind = "draw" -> [m EXCEPT !.inter.currentWorld = snapWorld(m, p)]
            [] i.kind = "drag_constraint_anchor" ->
                 [m EXCEPT !.sc.conObj[i.constraint].pb = snapWorld(m, p).x]
            [] i.kind = "move_field" ->
                 [m EXCEPT !.sc.fields =
                      ReplaceField(@, i.fieldId,
                                   [i.startField EXCEPT
                                      !.x = snapWorld(m, Pt(@ + (p.x - i.startWorld.x), 0)).x])]
            [] i.kind = "resize_field" ->
                 [m EXCEPT !.sc.fields =
                      ReplaceField(@, i.fieldId,
                                   [i.startField EXCEPT
                                      !.w = Max(MinResizeFieldW,
                                                2 * Abs(snapWorld(m, p).x - i.startField.x)),
                                      !.h = Max(MinResizeFieldW, 2 * Abs(snapWorld(m, p).y))])]
            [] i.kind = "rotate_body" ->
                 IF findBodyByMetaId(sc, i.bodyId) = NoId THEN m
                 ELSE [m EXCEPT !.sc.bodyObj[i.bodyId].angle =
                                   (Dir8(p.x - i.center, p.y) + i.angleOffset) % 8]
            [] i.kind = "resize_body" ->
                 IF findBodyByMetaId(sc, i.bodyId) = NoId THEN m
                 ELSE [m EXCEPT !.sc.bodyObj[i.bodyId].r =
                                   ScaledRadius(i.initialShape, Dist2(p, i.center, 0), i.startDist2)]
            [] i.kind = "move_selection" ->
                 [m EXCEPT !.sc = MoveBodies(@, i.starts, SelectionDelta(m, p))]
            [] i.kind = "box_select" -> [m EXCEPT !.inter.currentWorld = snapWorld(m, p)]
            [] i.kind = "select_press" ->
                 IF InDeadZone(i, p) THEN m ELSE PressMove(m, pid, p)

\* faulty variant: every frame of a field drag is committed
onPointerMoveCommitsFrames(m, pid, p) ==
  IF m.inter.kind = "none" \/ m.inter.pointerId # pid THEN m
  ELSE IF m.inter.kind = "move_field" /\ FieldIndex(m.sc.fields, m.inter.fieldId) >= 0
  THEN commitFieldChange(Move(m, pid, p), m.inter.fieldId, m.inter.startField,
                         FindField(Move(m, pid, p).sc.fields, m.inter.fieldId))
  ELSE Move(m, pid, p)

onPointerMove(m, pid, p) ==
  IF m.inter.kind = "none" \/ m.inter.pointerId # pid THEN m    \* hover readout only
  ELSE Move(m, pid, p)

createConstraintBetweenBodies(sc, t, a, b) ==
  [a |-> a, b |-> b, pb |-> NoPoint, rope |-> NoId, kind |-> t,
   len |-> Abs(sc.bodyObj[a].x - sc.bodyObj[b].x)]

createConstraintToPoint(sc, t, a, px) ==
  [a |-> a, b |-> NoId, pb |-> px, rope |-> NoId, kind |-> t,
   len |-> Abs(sc.bodyObj[a].x - px)]

\* the constraint object joins the heap under the next constraint id
WithConstraint(m, con) ==
  [m EXCEPT !.sc.conObj = [c \in DOMAIN @ \cup {m.fresh.con} |->
                             IF c \in DOMAIN @ THEN @[c] ELSE con],
            !.fresh.con = @ + 1]

\* constraint objects join the heap under the next constraint ids
WithConstraints(m, cons) ==
  LET n == Len(cons)
      ids == [i \in 1..n |-> m.fresh.con + i - 1]
  IN [m |-> [m EXCEPT !.sc.conObj = [c \in DOMAIN @ \cup Range(ids) |->
                                       IF c \in DOMAIN @ THEN @[c]
                                       ELSE cons[c - m.fresh.con + 1]],
                      !.fresh.con = @ + n],
      ids |-> ids]

RopeSegmentPx == 60
MinRopeSegments == 6
MaxRopeSegments == 18
RopeRadius == 7

\* Math.min(18, Math.max(6, Math.floor(dist / 60)))
RopeSegments(dist) == Min(MaxRopeSegments, Max(MinRopeSegments, dist \div RopeSegmentPx))

\* the segment bodies of a rope from body a towards endX, evenly spaced (kept
\* to whole pixels), all in the rope group g
RopeBodies(sc, a, endX, g) ==
  LET start == sc.bodyObj[a].x
      n == RopeSegments(Abs(start - endX))
  IN [i \in 1..n |->
        [NewBody(start + ((endX - start) * i) \div (n + 1), RopeRadius) EXCEPT !.rope = g]]

\* one constraint per link of the chain, all in the rope group g
RopeLinks(chain, len, g) ==
  [i \in 1..(Len(chain) - 1) |->
     [a |-> chain[i], b |-> chain[i + 1], pb |-> NoPoint, rope |-> g, kind |-> "rope",
      len |-> len]]

\* faulty variant: the links to the two end bodies are left out of the rope group
addRopeChainLooseEnds(m, a, b) ==
  LET g == m.fresh.rope
      endX == m.sc.bodyObj[b].x
      made == WithClones([m EXCEPT !.fresh.rope = @ + 1], RopeBodies(m.sc, a, endX, g))
      n == Len(made.ids)
      len == Abs(m.sc.bodyObj[a].x - endX) \div (n + 1)
      links == RopeLinks(<<a>> \o made.ids \o <<b>>, len, g)
      linked == WithConstraints(made.m, [i \in 1..Len(links) |->
                                           IF i \in {1, Len(links)}
                                           THEN [links[i] EXCEPT !.rope = NoId]
                                           ELSE links[i]])
  IN [m |-> linked.m, bodies |-> made.ids, constraints |-> linked.ids]

addRopeChain(m, a, b) ==
  LET g == m.fresh.rope
      endX == m.sc.bodyObj[b].x
      made == WithClones([m EXCEPT !.fresh.rope = @ + 1], RopeBodies(m.sc, a, endX, g))
      n == Len(made.ids)
      len == Abs(m.sc.bodyObj[a].x - endX) \div (n + 1)
      linked == WithConstraints(made.m, RopeLinks(<<a>> \o made.ids \o <<b>>, len, g))
  IN [m |-> linked.m, bodies |-> made.ids, constraints |-> linked.ids]

\* the chain hangs on body a; its last segment is tied to the fixed point endX
addRopeChainToPoint(m, a, endX) ==
  LET g == m.fresh.rope
      made == WithClones([m EXCEPT !.fresh.rope = @ + 1], RopeBodies(m.sc, a, endX, g))
      n == Len(made.ids)
      len == Abs(m.sc.bodyObj[a].x - endX) \div (n + 1)
      tail == [a |-> Last(made.ids), b |-> NoId, pb |-> endX, rope |-> g, kind |-> "rope",
               len |-> len]
      linked == WithConstraints(made.m, Append(RopeLinks(<<a>> \o made.ids, len, g), tail))
  IN [m |-> linked.m, bodies |-> made.ids, constraints |-> linked.ids]

\* Math.hypot of a drag, kept to whole pixels
DragLength(dx, dy) ==
  IF dy = 0 THEN Abs(dx) ELSE IF dx = 0 THEN Abs(dy) ELSE Sqrt(dx * dx + dy * dy)

\* the track tool: the number of segments and the curvature (in twentieths)
TrackSegments(len) ==
  Min(MaxTrackSegments, Max(MinTrackSegments, len \div TrackSegmentPx))
TrackCurve20(len) == Min(MaxTrackCurve20, Max(MinTrackCurve20, 9 * len))

\* the squared length of segment k (from 0) of a track of n segments drawn
\* along the line, times 100 n^4: the control point of the curve lies the
\* curvature above the midpoint, so that point j of the curve is at
\* x0 + j dx / n, 2 j (n - j) curvature / n^2 above the line
TrackSegLen2(dx, n, k) ==
  100 * dx * dx * n * n
    + TrackCurve20(Abs(dx)) * TrackCurve20(Abs(dx)) * (n - 2 * k - 1) * (n - 2 * k - 1)

\* the segments of a track that are at least MinTrackSegLen long, each a static
\* rectangle at the middle of its two points (its tilt and its height above
\* the line are not kept)
TrackBodies(x0, dx) ==
  LET n == TrackSegments(Abs(dx))
      unit == 100 * n * n * n * n
      kept == SelectSeq([j \in 1..n |-> j - 1],
                        LAMBDA k : TrackSegLen2(dx, n, k) >= MinTrackSegLen * MinTrackSegLen * unit)
  IN [j \in 1..Len(kept) |->
        NewBox(x0 + ((2 * kept[j] + 1) * dx) \div (2 * n),
               Sqrt(TrackSegLen2(dx, n, kept[j]) \div unit), TrackThickness)]

\* finalizeDraw: the bodies a released draw creates, none where the code
\* returns null; circles and polygons are centred at the start point,
\* rectangles at the midpoint of the drag
finalizeDraw(i) ==
  LET dx == i.currentWorld.x - i.startWorld.x
      dy == i.currentWorld.y - i.startWorld.y
      centerX == (i.startWorld.x + i.currentWorld.x) \div 2
  IN CASE i.tool = "circle" -> <<NewBody(i.startWorld.x, Max(MinCircleR, DragLength(dx, dy)))>>
       [] i.tool = "polygon" -> <<NewPolygon(i.startWorld.x, Max(MinPolygonR, DragLength(dx, dy)))>>
       [] i.tool = "slope" ->
            <<[NewBox(centerX, Max(MinSlopeLen, DragLength(dx, dy)), SlopeThickness)
                 EXCEPT !.angle = Dir8(dx, dy)]>>
       [] i.tool = "track" ->
            IF DragLength(dx, dy) < MinTrackLen THEN <<>> ELSE TrackBodies(i.startWorld.x, dx)
       [] i.tool = "conveyor" ->
            <<NewBox(centerX, Max(MinConveyorW, Abs(dx)), Max(MinConveyorH, Abs(dy)))>>
       [] i.tool \in {"rectangle", "wall"} ->
            <<NewBox(centerX, Max(MinBoxSize, Abs(dx)), Max(MinBoxSize, Abs(dy)))>>
       [] OTHER -> <<>>

FieldTools == {"field_e_rect", "field_e_circle", "field_b_rect", "field_b_circle"}

\* createFieldFromDraw: a rectangular field is centred at the midpoint of the
\* drag, a circular one at the start point
createFieldFromDraw(i, id) ==
  LET dx == i.currentWorld.x - i.startWorld.x
      dy == i.currentWorld.y - i.startWorld.y
      kind == IF i.tool \in {"field_e_rect", "field_e_circle"} THEN "electric" ELSE "magnetic"
  IN IF i.tool \in {"field_e_rect", "field_b_rect"}
     THEN [id |-> id, x |-> (i.startWorld.x + i.currentWorld.x) \div 2,
           w |-> Max(MinFieldW, Abs(dx)), h |-> Max(MinFieldH, Abs(dy)),
           kind |-> kind, shape |-> "rect", radius |-> 0]
     ELSE [id |-> id, x |-> i.startWorld.x, w |-> 0, h |-> 0,
           kind |-> kind, shape |-> "circle", radius |-> Max(MinFieldRadius, DragLength(dx, dy))]

\* faulty variant: an additive box select forgets the selection it started from
BoxReleaseDropsBase(m) ==
  LET i == m.inter
      sc == m.sc
      left == Min(i.startWorld.x, i.currentWorld.x)
      right == Max(i.startWorld.x, i.currentWorld.x)
      top == Min(i.startWorld.y, i.currentWorld.y)
      bottom == Max(i.startWorld.y, i.currentWorld.y)
      nextIds == SelectSeq(sc.worldBodies,
                           LAMBDA b : /\ sc.bodyObj[b].x >= left /\ sc.bodyObj[b].x <= right
                                      /\ 0 >= top /\ 0 <= bottom)
  IN IF Len(nextIds) > 0
     THEN setSelectedBodies(sc, nextIds, Last(nextIds))
     ELSE IF ~i.additive THEN clearSelection(sc) ELSE sc

BoxRelease(m) ==
  LET i == m.inter
      sc == m.sc
      left == Min(i.startWorld.x, i.currentWorld.x)
      right == Max(i.startWorld.x, i.currentWorld.x)
      top == Min(i.startWorld.y, i.currentWorld.y)
      bottom == Max(i.startWorld.y, i.currentWorld.y)
      nextIds == SelectSeq(sc.worldBodies,
                           LAMBDA b : /\ sc.bodyObj[b].x >= left /\ sc.bodyObj[b].x <= right
                                      /\ 0 >= top /\ 0 <= bottom)
  IN IF Len(nextIds) > 0
     THEN IF i.additive
          THEN setSelectedBodies(sc, Unique(i.baseSelection \o nextIds), Last(nextIds))
          ELSE setSelectedBodies(sc, nextIds, Last(nextIds))
     ELSE IF ~i.additive THEN clearSelection(sc) ELSE sc

\* faulty variant: the free end is tied to the release point whatever lies there
ConstraintReleaseOnSelf(m, p) ==
  LET i == m.inter
      sc == m.sc
      selectionBefore == sc.selected
      endBody == queryBodyAtPoint(sc, p)
      between == WithConstraint(m, createConstraintBetweenBodies(sc, i.tool, i.startBody, endBody))
      toPoint == WithConstraint(m, createConstraintToPoint(sc, i.tool, i.startBody,
                                                         snapWorld(m, p).x))
      rope == addRopeChain(m, i.startBody, endBody)
      ropeToPoint == addRopeChainToPoint(m, i.startBody, snapWorld(m, p).x)
  IN IF endBody # NoId /\ endBody # i.startBody
     THEN IF i.tool = "rope"
          THEN commitWorldAdd(rope.m, rope.bodies, rope.constraints, selectionBefore,
                              SelBody(endBody))
          ELSE commitWorldAdd(between, <<>>, <<m.fresh.con>>, selectionBefore, SelBody(endBody))
     ELSE IF i.tool = "rope"
     THEN commitWorldAdd(ropeToPoint.m, ropeToPoint.bodies, ropeToPoint.constraints,
                         selectionBefore, SelBody(i.startBody))
     ELSE commitWorldAdd(toPoint, <<>>, <<m.fresh.con>>, selectionBefore, SelBody(i.startBody))

ConstraintRelease(m, p) ==
  LET i == m.inter
      sc == m.sc
      selectionBefore == sc.selected
      endBody == queryBodyAtPoint(sc, p)
      between == WithConstraint(m, createConstraintBetweenBodies(sc, i.tool, i.startBody, endBody))
      toPoint == WithConstraint(m, createConstraintToPoint(sc, i.tool, i.startBody,
                                                         snapWorld(m, p).x))
      rope == addRopeChain(m, i.startBody, endBody)
      ropeToPoint == addRopeChainToPoint(m, i.startBody, snapWorld(m, p).x)
  IN IF endBody # NoId /\ endBody # i.startBody
     THEN IF i.tool = "rope"
          THEN commitWorldAdd(rope.m, rope.bodies, rope.constraints, selectionBefore,
                              SelBody(endBody))
          ELSE commitWorldAdd(between, <<>>, <<m.fresh.con>>, selectionBefore, SelBody(endBody))
     ELSE IF endBody = NoId
             /\ Dist2(snapWorld(m, p), sc.bodyObj[i.startBody].x, 0) > MinAnchorDist * MinAnchorDist
     THEN IF i.tool = "rope"
          THEN commitWorldAdd(ropeToPoint.m, ropeToPoint.bodies, ropeToPoint.constraints,
                              selectionBefore, SelBody(i.startBody))
          ELSE commitWorldAdd(toPoint, <<>>, <<m.fresh.con>>, selectionBefore,
                              SelBody(i.startBody))
     ELSE m

\* faulty variant: a draw that never left its start point creates nothing
DrawReleaseRejectsEmpty(m) ==
  LET i == m.inter
      selectionBefore == m.sc.selected
      fieldId == m.fresh.field
      made == WithClones(m, finalizeDraw(i))
      done == IF i.currentWorld = i.startWorld THEN m
              ELSE IF i.tool \in FieldTools
              THEN commitFieldAdd([m EXCEPT !.fresh.field = @ + 1],
                                  createFieldFromDraw(i, fieldId), selectionBefore, SelField(fieldId))
              ELSE IF made.ids # <<>>
              THEN commitWorldAdd(made.m, made.ids, <<>>, selectionBefore, SelBody(Head(made.ids)))
              ELSE m
  IN [done EXCEPT !.tool = i.tool]

\* the release of a draw gesture: a field tool commits its field, any other
\* tool commits the bodies finalizeDraw created, if any, and selects the first
DrawRelease(m) ==
  LET i == m.inter
      selectionBefore == m.sc.selected
      fieldId == m.fresh.field
      made == WithClones(m, finalizeDraw(i))
      done == IF i.tool \in FieldTools
              THEN commitFieldAdd([m EXCEPT !.fresh.field = @ + 1],
                                  createFieldFromDraw(i, fieldId), selectionBefore, SelField(fieldId))
              ELSE IF made.ids # <<>>
              THEN commitWorldAdd(made.m, made.ids, <<>>, selectionBefore, SelBody(Head(made.ids)))
              ELSE m
  IN [done EXCEPT !.tool = i.tool]

\* faulty variant: a shift-click adds the body but never takes it out again
PressReleaseNoToggle(m) ==
  LET i == m.inter
  IN [m EXCEPT !.sc =
        CASE i.hit.kind = "body" -> selectBody(@, i.hit.id, i.shiftKey, FALSE)
          [] i.hit.kind = "field" -> selectField(@, i.hit.id)
          [] i.hit.kind = "empty" -> IF ~i.shiftKey THEN clearSelection(@) ELSE @]

\* a press released inside the dead zone is a click on what it hit
PressRelease(m) ==
  LET i == m.inter
  IN [m EXCEPT !.sc =
        CASE i.hit.kind = "body" -> selectBody(@, i.hit.id, i.shiftKey, i.shiftKey)
          [] i.hit.kind = "field" -> selectField(@, i.hit.id)
          [] i.hit.kind = "empty" -> IF ~i.shiftKey THEN clearSelection(@) ELSE @]

\* what the release does for each kind of interaction, before the interaction is dropped
Release(m, p) ==
  LET i == m.inter
      sc == m.sc
  IN CASE i.kind \in {"pan", "move_selection", "rotate_body", "resize_body",
                      "drag_constraint_anchor"} -> m
       [] i.kind = "measure_ruler" -> [m EXCEPT !.meas = [kind |-> "ruler", hasB |-> TRUE]]
       [] i.kind = "measure_protractor" ->
            [m EXCEPT !.meas = [kind |-> "protractor", hasB |-> (i.phase = 2)]]
       [] i.kind = "select_press" -> PressRelease(m)
       [] i.kind = "box_select" -> [m EXCEPT !.sc = BoxRelease(m)]
       [] i.kind \in {"move_field", "resize_field"} ->
            IF FieldIndex(sc.fields, i.fieldId) < 0 THEN m
            ELSE commitFieldChange(m, i.fieldId, i.startField, FindField(sc.fields, i.fieldId))
       [] i.kind = "constraint" -> ConstraintRelease(m, p)
       [] i.kind = "draw" -> DrawRelease(m)

\* faulty variant: a released rotation stays in flight
onPointerUpKeepsRotation(m, pid, p) ==
  IF m.inter.kind = "none" \/ m.inter.pointerId # pid THEN m
  ELSE IF m.inter.kind = "rotate_body" THEN Release(m, p)
  ELSE [Release(m, p) EXCEPT !.inter = NoInteraction]

onPointerUp(m, pid, p) ==
  IF m.inter.kind = "none" \/ m.inter.pointerId # pid THEN m
  ELSE [Release(m, p) EXCEPT !.inter = NoInteraction]

\* ---------------------------------------------------------------- observer
\* hist remembers the last operation (op, src, ev), the number n of actions
\* it committed and the scene `at` the last of them was entered in, and the
\* states around the last edit: pre is the state before the edit (for a
\* gesture, the state when its pointer went down), post the state after it.
\* base and clean follow the gesture in flight: clean is FALSE once anything
\* but the gesture's own pointer has acted since its pointer went down.
Snap(sc) == [ent |-> Entities(sc), sel |-> SelectionOf(sc)]
NoSnap == [ent |-> <<>>, sel |-> <<>>]
NoEv == [type |-> "none", pid |-> NoId, kind |-> "none", owner |-> NoId]

Owner == IF interaction.kind = "none" THEN NoId ELSE interaction.pointerId

PointerEv(type, pid) == [type |-> type, pid |-> pid, kind |-> interaction.kind, owner |-> Owner]

InitHist ==
  [op |-> "init", src |-> "none", n |-> 0, at |-> <<>>, pre |-> NoSnap, post |-> NoSnap,
   ok |-> TRUE, ev |-> NoEv, base |-> NoSnap, clean |-> TRUE]

Observe(m2, src, ev) ==
  LET inflight == ev.type \in {"down", "move", "up"} /\ interaction.kind # "none"
      owner == inflight /\ ev.pid = interaction.pointerId
      starts == ev.type = "down" /\ m2.inter # interaction
      gesture == ev.type = "up" /\ owner
      n == Len(m2.log)
      same == m2.sc = Scene /\ m2.h = History /\ m2.inter = interaction
      base2 == IF m2.inter.kind = "none" THEN NoSnap
               ELSE IF starts THEN Snap(Scene) ELSE hist.base
      clean2 == IF m2.inter.kind = "none" \/ starts THEN TRUE
                ELSE IF owner THEN hist.clean
                ELSE hist.clean /\ same
      edit == n > 0 \/ gesture
  IN [op |-> IF n > 0 THEN "commit" ELSE IF gesture THEN "release" ELSE "other",
      src |-> IF edit THEN src ELSE "none",
      n |-> n,
      at |-> IF n > 0 THEN Last(m2.log).at ELSE <<>>,
      pre |-> IF ~edit THEN NoSnap ELSE IF gesture THEN hist.base ELSE Snap(Scene),
      post |-> IF ~edit THEN NoSnap ELSE Snap(m2.sc),
      ok |-> IF gesture THEN hist.clean ELSE TRUE,
      ev |-> IF edit \/ (inflight /\ ~same) THEN ev ELSE NoEv,
      base |-> base2, clean |-> clean2]

ObserveUndoRedo(m2, key) ==
  LET follows == IF key = "undo" THEN hist.op = "commit" ELSE hist.op = "commit_undo"
      noop == m2.h = History
  IN IF follows /\ ~noop
     THEN [hist EXCEPT !.op = IF key = "undo" THEN "commit_undo" ELSE "commit_undo_redo",
                       !.clean = @ /\ interaction.kind = "none"]
     ELSE [InitHist EXCEPT !.op = IF noop THEN key \o "_noop" ELSE key,
                           !.base = hist.base,
                           !.clean = hist.clean /\ interaction.kind = "none"]

SetEditor(m2) ==
  /\ SetScene(m2.sc)
  /\ undoStack' = m2.h.undo
  /\ redoStack' = m2.h.redo
  /\ clipboard' = m2.clip
  /\ interaction' = m2.inter
  /\ measurement' = m2.meas
  /\ tool' = m2.tool
  /\ fresh' = m2.fresh

SetMachine(m2) ==
  /\ SetEditor(m2)
  /\ UNCHANGED <<settings, settingsRef, frame, world, probe>>

\* the handler's result stays within the bounds of the model
InBounds(m2, started) ==
  /\ m2.fresh.body <= scope.bodies + 1
  /\ m2.fresh.con <= scope.cons + 1
  /\ m2.fresh.field <= MaxFields + 1
  /\ Len(m2.log) <= scope.commits
  /\ started => scope.gestures > 0

Step(m2, src, ev) ==
  LET started == ev.type = "down" /\ m2.inter # interaction
  IN /\ ~resetPending
     /\ InBounds(m2, started)
     /\ SetMachine(m2)
     /\ scope' = [scope EXCEPT !.commits = @ - Len(m2.log),
                               !.gestures = IF started THEN @ - 1 ELSE @]
     /\ hist' = Observe(m2, src, ev)
     /\ UNCHANGED <<resetPending, stepRequested>>

KeyEv(type) == [type |-> type, pid |-> NoId, kind |-> interaction.kind, owner |-> Owner]

\* ------------------------------------------------------------------ inputs
GridPx == 2 * GridHalf
LinePts == {Pt(k * GridPx, 0) : k \in 0..MaxX}

\* where the handles of the current selection are drawn
HandlePts ==
  LET body == IF selected.kind = "body" /\ Len(selectedBodyIds) <= 1
              THEN findBodyByMetaId(Scene, selected.id) ELSE NoId
      fidx == IF selected.kind = "field" THEN FieldIndex(fields, selected.id) ELSE -1
  IN (IF body = NoId THEN {}
      ELSE {Pt(bodyObj[body].x, -bodyObj[body].r - RotateHandlePx),
            Pt(bodyObj[body].x + bodyObj[body].r, bodyObj[body].r)})
     \cup
     (IF fidx < 0 THEN {}
      ELSE {Pt(fields[fidx + 1].x, 0),
            Pt(fields[fidx + 1].x + fields[fidx + 1].w \div 2, fields[fidx + 1].h \div 2)})

\* the centres of the bodies of the world
BodyPts == {Pt(bodyObj[b].x, 0) : b \in Range(worldBodies)}

DownPts ==
  LinePts \cup (IF tool = "select" THEN HandlePts ELSE {})
          \cup (IF scope.pick THEN BodyPts ELSE {})

\* a body is resized along the diagonal through the corner, everything else
\* is dragged along the line; a press may also move by a few pixels
\* (scope.near), a draw may also reach a given length (scope.far)
MovePts ==
  IF interaction.kind = "resize_body"
  THEN {Pt(interaction.center + k, k) : k \in {GridHalf, GridPx}}
  ELSE LinePts \cup
       (IF interaction.kind = "select_press"
        THEN {Pt(interaction.startWorld.x + d, interaction.startWorld.y) : d \in scope.near}
        ELSE {})
       \cup
       (IF interaction.kind = "draw"
        THEN {Pt(interaction.startWorld.x + d, interaction.startWorld.y) : d \in scope.far}
        ELSE {})

\* a constraint may also be released at a given distance from its body (scope.reach)
UpPts ==
  LinePts \cup
  (IF interaction.kind = "constraint"
   THEN {Pt(bodyObj[interaction.startBody].x + d, 0) : d \in scope.reach}
   ELSE {})

PasteCursors == {NoPoint, GridPx}

\* ----------------------------------------------------------------- actions
InitMachine ==
  [sc |-> [bodyObj |-> <<>>, conObj |-> <<>>, worldBodies |-> <<>>, worldCons |-> <<>>,
           fields |-> <<>>, selected |-> SelNone, selectedBodyIds |-> <<>>],
   h |-> [undo |-> <<>>, redo |-> <<>>],
   clip |-> NoClip, inter |-> NoInteraction, meas |-> NoMeasurement, tool |-> "select",
   fresh |-> [body |-> 1, con |-> 1, field |-> 1, act |-> 1, rope |-> 1],
   log |-> <<>>,
   snap |-> [enabled |-> FALSE, step |-> DefaultSnapStep]]

\* the frame observer before any frame has run
NoFrame == [frames |-> 0, steps |-> 0, stepped |-> FALSE, due |-> FALSE, asked |-> 0]

NoWorld == [bodies |-> <<>>, cons |-> <<>>, fields |-> <<>>]
NoProbe == [op |-> "none"]

\* the simulation is paused and the library functions are not under test
Paused ==
  /\ settingsRef = [isRunning |-> FALSE]
  /\ stepRequested = FALSE
  /\ frame = NoFrame
  /\ world = NoWorld
  /\ probe = NoProbe

StartEditor(m) ==
  /\ bodyObj = m.sc.bodyObj
  /\ conObj = m.sc.conObj
  /\ worldBodies = m.sc.worldBodies
  /\ worldCons = m.sc.worldCons
  /\ fields = m.sc.fields
  /\ selected = m.sc.selected
  /\ selectedBodyIds = m.sc.selectedBodyIds
  /\ undoStack = m.h.undo
  /\ redoStack = m.h.redo
  /\ clipboard = m.clip
  /\ interaction = m.inter
  /\ measurement = m.meas
  /\ tool = m.tool
  /\ fresh = m.fresh
  /\ resetPending = FALSE
  /\ hist = InitHist

StartFrom(m) ==
  /\ StartEditor(m)
  /\ settings = [snapEnabled |-> m.snap.enabled, snapStep |-> m.snap.step, isRunning |-> FALSE]
  /\ Paused

\* one pointer, the primary button without modifier keys, the editing tools,
\* presses, moves and releases on the grid points only
BaseScope ==
  [pointers |-> {1}, shift |-> {FALSE}, pan |-> {FALSE}, tools |-> EditTools,
   near |-> {}, reach |-> {}, far |-> {}, pick |-> FALSE,
   bodies |-> MaxBodies, cons |-> MaxCons, commits |-> 0, gestures |-> 0]

Init ==
  /\ StartFrom(InitMachine)
  /\ scope = [BaseScope EXCEPT !.commits = MaxCommits, !.gestures = MaxGestures]

\* the pointer that holds the gesture is down already: only another one can go down
PointerDown ==
  \E pid \in scope.pointers, p \in DownPts, shiftKey \in scope.shift, panKey \in scope.pan :
    /\ interaction.kind # "none" => interaction.pointerId # pid
    /\ Step(onPointerDown(Machine, pid, p, shiftKey, panKey), "pointerDown",
            PointerEv("down", pid))

PointerMove ==
  \E pid \in scope.pointers, p \in MovePts :
    Step(onPointerMove(Machine, pid, p), "pointerMove", PointerEv("move", pid))

PointerUp ==
  \E pid \in scope.pointers, p \in UpPts :
    Step(onPointerUp(Machine, pid, p), "pointerUp", PointerEv("up", pid))

\* KeyboardShortcuts: Delete / Backspace
DeleteKey ==
  /\ selected.kind # "none"
  /\ Step(deleteSelected(Machine), "deleteSelected", KeyEv("key"))

\* FieldInspector: the delete button of the selected field
InspectorDeleteField ==
  /\ selected.kind = "field"
  /\ FieldIndex(fields, selected.id) >= 0
  /\ Step(deleteFieldById(Machine, selected.id), "deleteFieldById", KeyEv("key"))

CopyKey == Step(copySelected(Machine), "copy", KeyEv("key"))

PasteKey ==
  \E cursor \in PasteCursors : Step(paste(Machine, cursor), "paste", KeyEv("key"))

DuplicateKey == Step(duplicateSelected(Machine), "duplicate", KeyEv("key"))

\* BodyInspector: the charged checkbox of the selected body
InspectorToggleCharged ==
  /\ selected.kind = "body"
  /\ findBodyByMetaId(Scene, selected.id) # NoId
  /\ Step(toggleCharged(Machine, selected.id), "commitBodyStateChange", KeyEv("key"))

UndoKey ==
  /\ ~resetPending
  /\ SetMachine(undoKey(Machine))
  /\ hist' = ObserveUndoRedo(undoKey(Machine), "undo")
  /\ UNCHANGED <<resetPending, scope, stepRequested>>

RedoKey ==
  /\ ~resetPending
  /\ SetMachine(redoKey(Machine))
  /\ hist' = ObserveUndoRedo(redoKey(Machine), "redo")
  /\ UNCHANGED <<resetPending, scope, stepRequested>>

\* the toolbar; tools are chosen between gestures
SetTool ==
  \E t \in scope.tools :
    /\ t # tool
    /\ interaction.kind = "none"
    /\ Step([Machine EXCEPT !.tool = t], "setTool", KeyEv("key"))

\* requestReset: everything up to setResetNonce; the engine effect follows
RequestReset ==
  /\ ~resetPending
  /\ SetEditor(requestReset(Machine))
  /\ frame' = [frame EXCEPT !.asked = 0]
  /\ UNCHANGED <<settings, settingsRef, world, probe>>
  /\ resetPending' = TRUE
  /\ hist' = [InitHist EXCEPT !.op = "reset", !.src = "requestReset", !.ev = KeyEv("reset"),
                              !.at = [sc |-> Scene, h |-> History],
                              !.base = hist.base, !.clean = FALSE]
  /\ stepRequested' = FALSE
  /\ UNCHANGED scope

EngineEffect ==
  /\ resetPending
  /\ SetMachine(engineEffect(Machine))
  /\ resetPending' = FALSE
  /\ hist' = [InitHist EXCEPT !.op = "effect", !.src = "engineEffect", !.ev = hist.ev,
                              !.at = hist.at]
  /\ UNCHANGED <<scope, stepRequested>>

Next ==
  \/ PointerDown
  \/ PointerMove
  \/ PointerUp
  \/ DeleteKey
  \/ InspectorDeleteField
  \/ CopyKey
  \/ PasteKey
  \/ DuplicateKey
  \/ InspectorToggleCharged
  \/ UndoKey
  \/ RedoKey
  \/ SetTool
  \/ RequestReset
  \/ EngineEffect

Spec == Init /\ [][Next]_vars

\* ---------------------------------------------------------- prepared scenes
\* A press at x1, a drag to x2 and the release there, with tool t and pointer 1.
Drag(m, t, x1, x2) ==
  LET down == onPointerDown([m EXCEPT !.tool = t, !.log = <<>>], 1, Pt(x1, 0), FALSE, FALSE)
      moved == IF x2 = x1 THEN down ELSE onPointerMove(down, 1, Pt(x2, 0))
  IN [onPointerUp(moved, 1, Pt(x2, 0)) EXCEPT !.log = <<>>, !.tool = "select"]

OneBody == Drag(InitMachine, "circle", 0, 0)
TwoBodies == Drag(OneBody, "circle", GridPx, GridPx)
AnchoredRod == Drag(OneBody, "rod", 0, GridPx)
OneField == Drag(InitMachine, "field_e_rect", 0, GridPx)

\* both bodies selected: a shift-click on the first body adds it to the selection
TwoSelected ==
  LET down == onPointerDown([TwoBodies EXCEPT !.log = <<>>], 1, Pt(0, 0), TRUE, FALSE)
  IN [onPointerUp(down, 1, Pt(0, 0)) EXCEPT !.log = <<>>]

PreparedScenes == {OneBody, TwoBodies, TwoSelected, AnchoredRod, OneField}

\* editing a prepared scene with one pointer and the keyboard
InitScene ==
  /\ \E m \in PreparedScenes : StartFrom(m)
  /\ scope = [BaseScope EXCEPT !.commits = SceneCommits, !.gestures = SceneGestures]

SpecScene == InitScene /\ [][Next]_vars

\* two bodies with empty canvas between them, the second one selected
TwoApart == Drag(OneBody, "circle", 2 * GridPx, 2 * GridPx)

\* the anchor of the rod dragged next to a corner handle of the selected body
AnchorAtCorner == Drag(AnchoredRod, "select", GridPx, MinCircleR)

PointerScenes == PreparedScenes \cup {TwoApart, AnchorAtCorner}

\* the last pixel inside the dead zone of a press and the first one outside
NearSteps == {Sqrt(ClickDragThreshold2) - 1, Sqrt(ClickDragThreshold2)}

\* the pointer machine alone on a prepared scene: two pointers, the modifier
\* keys, every tool, and moves of a few pixels
InitPointer ==
  /\ \E m \in PointerScenes : StartFrom(m)
  /\ scope = [BaseScope EXCEPT !.pointers = PointerIds, !.shift = BOOLEAN,
                               !.pan = BOOLEAN, !.near = NearSteps,
                               !.tools = ModelTools,
                               !.commits = PointerCommits, !.gestures = PointerGestures]

NextPointer ==
  \/ PointerDown
  \/ PointerMove
  \/ PointerUp
  \/ SetTool

SpecPointer == InitPointer /\ [][NextPointer]_vars

\* --------------------------------------------------- constraints and ropes
\* the second body far enough for a rope of the greatest number of segments
FarApart == Drag(OneBody, "circle", RopeSegmentPx * (MaxRopeSegments + 1),
                 RopeSegmentPx * (MaxRopeSegments + 1))

\* a rope of the greatest number of segments between two bodies, and a rope
\* of seven segments from a body to a point
RopeBetween == Drag(FarApart, "rope", 0, RopeSegmentPx * (MaxRopeSegments + 1))
RopeToPoint == Drag(OneBody, "rope", 0, 7 * RopeSegmentPx)

RopeScenes == {OneBody, TwoBodies, FarApart, RopeBetween, RopeToPoint}

RopeTools == {"select"} \cup ConstraintTools

\* release distances from the source body: at the minimum anchor distance and
\* just beyond it, and rope lengths of 6, 7 and 18 segments
ReachSteps ==
  {MinAnchorDist, MinAnchorDist + 1, 5 * RopeSegmentPx, 7 * RopeSegmentPx,
   RopeSegmentPx * (MaxRopeSegments + 1)}

InitRope ==
  /\ \E m \in RopeScenes : StartFrom(m)
  /\ scope = [BaseScope EXCEPT !.tools = RopeTools, !.reach = ReachSteps, !.pick = TRUE,
                               !.bodies = RopeMaxBodies, !.cons = RopeMaxCons,
                               !.commits = RopeCommits, !.gestures = RopeGestures]

NextRope ==
  \/ PointerDown
  \/ PointerMove
  \/ PointerUp
  \/ SetTool
  \/ DeleteKey
  \/ UndoKey
  \/ RedoKey

SpecRope == InitRope /\ [][NextRope]_vars

\* ------------------------------------------------------------ grid snapping
\* metersToWorld of the snap steps 0.1 m and 0.25 m
SnapSteps == {8, DefaultSnapStep}

SnapScenes == {TwoBodies, TwoSelected, OneField}

\* dragging with the select tool while the snap controls are used
InitSnap ==
  /\ \E m \in SnapScenes, e \in BOOLEAN, st \in SnapSteps :
        StartFrom([m EXCEPT !.snap = [enabled |-> e, step |-> st]])
  /\ scope = [BaseScope EXCEPT !.tools = {"select"}, !.shift = BOOLEAN, !.near = NearSteps,
                               !.gestures = SnapGestures]

\* the snap checkbox
SetSnapEnabled ==
  /\ settings' = [settings EXCEPT !.snapEnabled = ~@]
  /\ UNCHANGED <<editorVars, settingsRef, stepRequested, frame, world, probe>>

\* the snap step selector, disabled while snapping is off
SetSnapStepMeters ==
  /\ settings.snapEnabled
  /\ \E st \in SnapSteps \ {settings.snapStep} : settings' = [settings EXCEPT !.snapStep = st]
  /\ UNCHANGED <<editorVars, settingsRef, stepRequested, frame, world, probe>>

NextSnap ==
  \/ PointerDown
  \/ PointerMove
  \/ PointerUp
  \/ SetSnapEnabled
  \/ SetSnapStepMeters

SpecSnap == InitSnap /\ [][NextSnap]_vars

\* ------------------------------------------------------------- frame loop
\* faulty variant: the step leaves the single-step request pending
drawKeepsRequest(ref, requested) ==
  [stepped |-> ref.isRunning \/ requested, stepRequested |-> requested]

\* the physics part of the frame callback: shouldStep, the step, and the
\* request cleared at the end of the step
draw(ref, requested) ==
  LET shouldStep == ref.isRunning \/ requested
  IN [stepped |-> shouldStep, stepRequested |-> IF shouldStep THEN FALSE ELSE requested]

\* the sandbox as constructed: running, nothing requested
InitFrame ==
  /\ StartEditor(InitMachine)
  /\ scope = BaseScope
  /\ settings = [snapEnabled |-> FALSE, snapStep |-> DefaultSnapStep, isRunning |-> TRUE]
  /\ settingsRef = [isRunning |-> TRUE]
  /\ stepRequested = FALSE
  /\ frame = NoFrame
  /\ world = NoWorld
  /\ probe = NoProbe

\* the play / pause button, with the effect that copies the flag to settingsRef
SetIsRunning ==
  /\ settings' = [settings EXCEPT !.isRunning = ~@]
  /\ settingsRef' = [isRunning |-> ~settings.isRunning]
  /\ UNCHANGED <<editorVars, stepRequested, frame, world, probe>>

\* the step button
RequestStep ==
  /\ stepRequested' = TRUE
  /\ frame' = [frame EXCEPT !.asked = IF @ < MaxAsked THEN @ + 1 ELSE @]
  /\ UNCHANGED <<editorVars, settings, settingsRef, world, probe>>

\* one display refresh
Draw ==
  LET r == draw(settingsRef, stepRequested)
  IN /\ frame.frames < MaxFrames
     /\ ~resetPending
     /\ stepRequested' = r.stepRequested
     /\ frame' = [frames |-> frame.frames + 1,
                  steps |-> frame.steps + (IF r.stepped THEN 1 ELSE 0),
                  stepped |-> r.stepped,
                  due |-> settings.isRunning \/ frame.asked >= 1,
                  asked |-> 0]
     /\ UNCHANGED <<editorVars, settings, settingsRef, world, probe>>

NextFrame ==
  \/ SetIsRunning
  \/ RequestStep
  \/ Draw
  \/ RequestReset
  \/ EngineEffect

SpecFrame == InitFrame /\ [][NextFrame]_vars

\* --------------------------------------------------------- electromagnetism
\* Lengths are in px. Charges are in units of 1500 C and forces in units of
\* 4e-5, which makes every constant of em.ts an integer. Bodies stand at the
\* origin or at one other point 120 px away, so that the softened distance is
\* 90 or 150 and every quotient below is exact.
COULOMB_K == 4500000
COULOMB_SOFTENING == 90
COULOMB_MAX_FORCE == 500
ELECTRIC_FORCE_SCALE == 8250
MAGNETIC_FORCE_SCALE == 45

\* a force vector; nan: the components are not numbers (or, before clamping,
\* not finite)
Vec(x, y) == [x |-> x, y |-> y, nan |-> FALSE]
NaNVec == [x |-> 0, y |-> 0, nan |-> TRUE]
zero == Vec(0, 0)
NegVec(a) == IF a.nan THEN NaNVec ELSE Vec(-a.x, -a.y)
addVec(a, b) == IF a.nan \/ b.nan THEN NaNVec ELSE Vec(a.x + b.x, a.y + b.y)

RECURSIVE Gcd(_, _)
Gcd(a, b) == IF b = 0 THEN a ELSE Gcd(b, a % b)

\* Math.hypot
Hypot(x, y) ==
  LET g == Gcd(Abs(x), Abs(y))
  IN IF g = 0 THEN 0 ELSE g * Sqrt((x \div g) * (x \div g) + (y \div g) * (y \div g))

\* clampForce; an infinite magnitude gives s = 0 and Infinity * 0, a NaN
\* magnitude fails the comparison and keeps the NaN
clampForce(vec, max) ==
  IF vec.nan THEN NaNVec
  ELSE LET mag == Hypot(vec.x, vec.y)
       IN IF mag <= max THEN vec
          ELSE Vec((vec.x * max) \div mag, (vec.y * max) \div mag)

NoMeta == [id |-> NoId]
BodyMeta(id, isCharged, q) == [id |-> id, isCharged |-> isCharged, charge |-> q]

\* a Matter body as the electromagnetism sees it
EmBody(id, pos, isStatic, meta) ==
  [id |-> id, position |-> pos, velocity |-> Pt(0, 0), isStatic |-> isStatic,
   meta |-> meta, force |-> zero]

\* the entries of allBodies that are charged with a finite nonzero charge
Charged(bodies) ==
  SelectSeq([k \in 1..Len(bodies) |-> k],
            LAMBDA k : /\ bodies[k].meta # NoMeta
                       /\ bodies[k].meta.isCharged
                       /\ bodies[k].meta.charge # NonFiniteQ
                       /\ bodies[k].meta.charge # 0)

\* faulty variant: the boundary of a region is outside it
isPointInRegionOpen(f, p) ==
  IF f.shape = "rect"
  THEN /\ 2 * p.x > 2 * f.x - f.width
       /\ 2 * p.x < 2 * f.x + f.width
       /\ 2 * p.y > 2 * f.y - f.height
       /\ 2 * p.y < 2 * f.y + f.height
  ELSE (p.x - f.x) * (p.x - f.x) + (p.y - f.y) * (p.y - f.y) < f.radius * f.radius

\* fields.ts isPointInField, for rectangles and circles
isPointInRegion(f, p) ==
  IF f.shape = "rect"
  THEN /\ 2 * p.x >= 2 * f.x - f.width
       /\ 2 * p.x <= 2 * f.x + f.width
       /\ 2 * p.y >= 2 * f.y - f.height
       /\ 2 * p.y <= 2 * f.y + f.height
  ELSE (p.x - f.x) * (p.x - f.x) + (p.y - f.y) * (p.y - f.y) <= f.radius * f.radius

\* dx * invDist * forceMag for one axis, without the charges
CoulombAxis(d, dist2) ==
  LET dist == Sqrt(dist2)
  IN ((COULOMB_K \div dist) * d) \div dist2

\* the clamped force f of one pair, as applied to a
CoulombOn(a, b) ==
  LET dx == a.position.x - b.position.x
      dy == a.position.y - b.position.y
      dist2 == dx * dx + dy * dy + COULOMB_SOFTENING * COULOMB_SOFTENING
      qq == a.meta.charge * b.meta.charge
  IN IF Abs(qq) > FloatMaxQQ THEN NaNVec
     ELSE clampForce(Vec(CoulombAxis(dx, dist2) * qq, CoulombAxis(dy, dist2) * qq),
                     COULOMB_MAX_FORCE)

\* one Matter.Body.applyForce of the call: the body, the component of the
\* breakdown it is booked under, the force, and the body or field it is due to
Applied(to, kind, f, by) == [to |-> to, kind |-> kind, f |-> f, by |-> by]

\* faulty variant: both bodies of a pair receive f
PairForcesSame(bodies, i, j) ==
  LET a == bodies[i]
      b == bodies[j]
      f == CoulombOn(a, b)
  IN IF a.isStatic /\ b.isStatic THEN <<>>
     ELSE (IF a.isStatic THEN <<>> ELSE <<Applied(i, "coulomb", f, j)>>)
          \o (IF b.isStatic THEN <<>> ELSE <<Applied(j, "coulomb", f, i)>>)

\* the body of the pair loop
PairForces(bodies, i, j) ==
  LET a == bodies[i]
      b == bodies[j]
      f == CoulombOn(a, b)
  IN IF a.isStatic /\ b.isStatic THEN <<>>
     ELSE (IF a.isStatic THEN <<>> ELSE <<Applied(i, "coulomb", f, j)>>)
          \o (IF b.isStatic THEN <<>> ELSE <<Applied(j, "coulomb", NegVec(f), i)>>)

\* for (i = 0 ..) for (j = i + 1 ..) over the charged list
RECURSIVE CoulombLoop(_, _, _, _)
CoulombLoop(bodies, charged, i, j) ==
  IF i > Len(charged) THEN <<>>
  ELSE IF j > Len(charged) THEN CoulombLoop(bodies, charged, i + 1, i + 2)
  ELSE PairForces(bodies, charged[i], charged[j]) \o CoulombLoop(bodies, charged, i, j + 1)

\* the force of one field region on a charged body inside it
FieldForce(body, f) ==
  LET q == body.meta.charge
  IN IF f.kind = "electric"
     THEN Vec(q * f.magnitude * ELECTRIC_FORCE_SCALE * f.dir.x,
              q * f.magnitude * ELECTRIC_FORCE_SCALE * f.dir.y)
     ELSE Vec(q * body.velocity.y * f.strength * MAGNETIC_FORCE_SCALE,
              q * (-body.velocity.x) * f.strength * MAGNETIC_FORCE_SCALE)

\* faulty variant: static bodies are not skipped
FieldLoopAll(bodies, charged, fs) ==
  LET one(k) ==
        LET inside == SelectSeq(fs, LAMBDA f : isPointInRegion(f, bodies[k].position))
        IN [n \in 1..Len(inside) |->
              Applied(k, inside[n].kind, FieldForce(bodies[k], inside[n]), inside[n].id)]
      RECURSIVE all(_)
      all(c) == IF c > Len(charged) THEN <<>> ELSE one(charged[c]) \o all(c + 1)
  IN all(1)

\* for (body of charged) for (field of fields)
FieldLoop(bodies, charged, fs) ==
  LET one(k) ==
        IF bodies[k].isStatic THEN <<>>
        ELSE LET inside == SelectSeq(fs, LAMBDA f : isPointInRegion(f, bodies[k].position))
             IN [n \in 1..Len(inside) |->
                   Applied(k, inside[n].kind, FieldForce(bodies[k], inside[n]), inside[n].id)]
      RECURSIVE all(_)
      all(c) == IF c > Len(charged) THEN <<>> ELSE one(charged[c]) \o all(c + 1)
  IN all(1)

\* every applyForce of one call, in the order of the calls
EmForces(bodies, fs) ==
  LET charged == Charged(bodies)
  IN CoulombLoop(bodies, charged, 1, 2)
     \o (IF Len(fs) = 0 \/ Len(charged) = 0 THEN <<>> ELSE FieldLoop(bodies, charged, fs))

NoBreakdown == [coulomb |-> zero, electric |-> zero, magnetic |-> zero, total |-> zero]

\* faulty variant: the force is booked under its kind only
addBreakdownKindOnly(map, id, kind, f) ==
  LET existing == IF id \in DOMAIN map THEN map[id] ELSE NoBreakdown
  IN [k \in DOMAIN map \cup {id} |->
        IF k = id THEN [existing EXCEPT ![kind] = addVec(@, f)] ELSE map[k]]

\* addBreakdown: the entry of the body, created on first use
addBreakdown(map, id, kind, f) ==
  LET existing == IF id \in DOMAIN map THEN map[id] ELSE NoBreakdown
  IN [k \in DOMAIN map \cup {id} |->
        IF k = id THEN [existing EXCEPT ![kind] = addVec(@, f), !.total = addVec(@, f)]
        ELSE map[k]]

\* Matter.Body.applyForce at the body's own position: force += f
applyForce(bodies, k, f) == [bodies EXCEPT ![k].force = addVec(@, f)]

EmptyMap == [k \in {} |-> NoBreakdown]

\* em.ts applyElectromagnetism: the bodies with the forces applied and the
\* breakdown by body id
RECURSIVE EmRun(_, _, _, _)
EmRun(bodies, map, forces, n) ==
  IF n > Len(forces) THEN [bodies |-> bodies, breakdown |-> map]
  ELSE EmRun(applyForce(bodies, forces[n].to, forces[n].f),
             addBreakdown(map, bodies[forces[n].to].id, forces[n].kind, forces[n].f),
             forces, n + 1)

applyElectromagnetism(bodies, fs) == EmRun(bodies, EmptyMap, EmForces(bodies, fs), 1)

\* conveyor.ts applyElectromagnetism: the same forces, nothing recorded
RECURSIVE ConveyorRun(_, _, _)
ConveyorRun(bodies, forces, n) ==
  IF n > Len(forces) THEN bodies
  ELSE ConveyorRun(applyForce(bodies, forces[n].to, forces[n].f), forces, n + 1)

applyElectromagnetismUnrecorded(bodies, fs) == ConveyorRun(bodies, EmForces(bodies, fs), 1)

\* the point 120 px from the origin where the bodies not at the origin stand
FarPts == {Pt(120, 0), Pt(0, 120), Pt(-72, 96)}

\* charges the inspector accepts (any finite number)
Charges == {0, 1, -2, 3, HugeQ}

Velocities == {Pt(0, 0), Pt(2, -1)}

ElectricRect == [id |-> 1, kind |-> "electric", shape |-> "rect", x |-> 0, y |-> 0,
                 width |-> 240, height |-> 240, magnitude |-> 2, dir |-> Pt(1, 0)]
ElectricDisc == [id |-> 2, kind |-> "electric", shape |-> "circle", x |-> 0, y |-> 0,
                 radius |-> 100, magnitude |-> 1, dir |-> Pt(0, -1)]
MagneticDisc == [id |-> 3, kind |-> "magnetic", shape |-> "circle", x |-> 0, y |-> 0,
                 radius |-> 120, strength |-> 1]
ZeroRect == [id |-> 4, kind |-> "electric", shape |-> "rect", x |-> 0, y |-> 0,
             width |-> 0, height |-> 0, magnitude |-> 0, dir |-> Pt(1, 0)]

FieldLists == {<<>>, <<ElectricRect>>, <<ElectricRect, MagneticDisc>>,
               <<ElectricDisc, MagneticDisc, ZeroRect>>}

\* a charge at the origin, a second one 120 px away, and a third body with or
\* without metadata
InitEm ==
  /\ StartEditor(InitMachine)
  /\ scope = BaseScope
  /\ settings = [snapEnabled |-> FALSE, snapStep |-> DefaultSnapStep, isRunning |-> FALSE]
  /\ settingsRef = [isRunning |-> FALSE]
  /\ stepRequested = FALSE
  /\ frame = NoFrame
  /\ probe = NoProbe
  /\ \E far \in FarPts, fs \in FieldLists, q \in {1, -2},
        third \in {NoMeta, BodyMeta(3, TRUE, NonFiniteQ), BodyMeta(3, TRUE, 3)} :
        world = [bodies |-> <<EmBody(1, Pt(0, 0), FALSE, BodyMeta(1, TRUE, 1)),
                              EmBody(2, far, FALSE, BodyMeta(2, TRUE, q)),
                              EmBody(3, Pt(0, 0), FALSE, third)>>,
                 fields |-> fs, far |-> far, edits |-> 0]

EmEdit(bodies) ==
  /\ world.edits < MaxEmEdits
  /\ world' = [world EXCEPT !.bodies = bodies, !.edits = @ + 1]
  /\ probe' = NoProbe
  /\ UNCHANGED <<editorVars, settings, settingsRef, stepRequested, frame>>

\* BodyInspector: the charge field
InspectorSetCharge ==
  \E k \in 1..Len(world.bodies), q \in Charges :
    /\ world.bodies[k].meta # NoMeta
    /\ world.bodies[k].meta.charge # q
    /\ EmEdit([world.bodies EXCEPT ![k].meta.charge = q])

\* BodyInspector: the isCharged toggle
InspectorSetIsCharged ==
  \E k \in 1..Len(world.bodies) :
    /\ world.bodies[k].meta # NoMeta
    /\ EmEdit([world.bodies EXCEPT ![k].meta.isCharged = ~@])

\* BodyInspector: enabling the conveyor makes the body static
InspectorSetStatic ==
  \E k \in 1..Len(world.bodies) :
    /\ ~world.bodies[k].isStatic
    /\ EmEdit([world.bodies EXCEPT ![k].isStatic = TRUE])

\* BodyInspector: the velocity form
InspectorSetVelocity ==
  \E k \in 1..Len(world.bodies), v \in Velocities :
    /\ world.bodies[k].velocity # v
    /\ EmEdit([world.bodies EXCEPT ![k].velocity = v])

\* a body is dragged onto the other standing point
DragBody ==
  \E k \in 1..Len(world.bodies) :
    EmEdit([world.bodies EXCEPT
              ![k].position = IF @ = world.far THEN Pt(0, 0) ELSE world.far])

\* one call of applyElectromagnetism at the start of a physics step
ApplyEm ==
  /\ probe = NoProbe
  /\ probe' = [op |-> "em"] @@ applyElectromagnetism(world.bodies, world.fields)
  /\ UNCHANGED <<editorVars, settings, settingsRef, stepRequested, frame, world>>

NextEm ==
  \/ InspectorSetCharge
  \/ InspectorSetIsCharged
  \/ InspectorSetStatic
  \/ InspectorSetVelocity
  \/ DragBody
  \/ ApplyEm

SpecEm == InitEm /\ [][NextEm]_vars

\* -------------------------------------------------------- unit conversions
\* Numbers are exact fractions n / d in lowest terms with d > 0. Times are in
\* sixths of a millisecond, so that 1000 / 60 ms is the integer 100.
Rat(n, d) ==
  LET g == Gcd(Abs(n), Abs(d))
      sgn == IF d < 0 THEN -1 ELSE 1
  IN [n |-> sgn * (n \div g), d |-> sgn * (d \div g)]
RInt(k) == Rat(k, 1)
RMul(a, b) == Rat(a.n * b.n, a.d * b.d)
RDiv(a, b) == Rat(a.n * b.d, a.d * b.n)

PX_PER_METER == 80
BASE_DELTA_MS == 100
Second == 6000   \* the 1000 ms of the conversions

\* a step duration; finite is FALSE for NaN, Infinity, null and undefined
Delta(v) == [finite |-> TRUE, v |-> RInt(v)]
NoDelta == [finite |-> FALSE, v |-> RInt(0)]

safeDeltaMs(deltaMs) ==
  IF deltaMs.finite /\ deltaMs.v.n > 0 THEN deltaMs.v ELSE RInt(BASE_DELTA_MS)

metersToWorld(meters) == RMul(meters, RInt(PX_PER_METER))

worldToMeters(w) == RDiv(w, RInt(PX_PER_METER))

worldVelocityStepToMps(stepVelocity, deltaMs) ==
  RDiv(RDiv(RMul(stepVelocity, RInt(Second)), safeDeltaMs(deltaMs)), RInt(PX_PER_METER))

\* faulty variant: the velocity is not scaled to the base step
mpsToWorldVelocityPerSecond(mps) == RMul(mps, RInt(PX_PER_METER))

mpsToWorldVelocityBaseStep(mps) ==
  RDiv(RMul(RMul(mps, RInt(PX_PER_METER)), RInt(BASE_DELTA_MS)), RInt(Second))

worldAngularVelocityStepToRadps(stepAngularVelocity, deltaMs) ==
  RDiv(RMul(stepAngularVelocity, RInt(Second)), safeDeltaMs(deltaMs))

radpsToWorldAngularVelocityBaseStep(radps) ==
  RDiv(RMul(radps, RInt(BASE_DELTA_MS)), RInt(Second))

\* step durations: none, zero, negative, 120 Hz, 60 Hz, 30 Hz
Deltas == {NoDelta, Delta(0), Delta(-BASE_DELTA_MS), Delta(50), Delta(BASE_DELTA_MS), Delta(200)}

UnitInputs == {Rat(n, d) : n \in -3..3, d \in {1, 2}}

Conversions == {"metersToWorld", "worldToMeters", "worldVelocityStepToMps",
                "mpsToWorldVelocityBaseStep", "worldAngularVelocityStepToRadps",
                "radpsToWorldAngularVelocityBaseStep"}

Convert(op, x, dt) ==
  CASE op = "metersToWorld" -> metersToWorld(x)
    [] op = "worldToMeters" -> worldToMeters(x)
    [] op = "worldVelocityStepToMps" -> worldVelocityStepToMps(x, dt)
    [] op = "mpsToWorldVelocityBaseStep" -> mpsToWorldVelocityBaseStep(x)
    [] op = "worldAngularVelocityStepToRadps" -> worldAngularVelocityStepToRadps(x, dt)
    [] op = "radpsToWorldAngularVelocityBaseStep" -> radpsToWorldAngularVelocityBaseStep(x)

\* a number typed into a readout
InitUnits ==
  /\ StartEditor(InitMachine)
  /\ scope = BaseScope
  /\ settings = [snapEnabled |-> FALSE, snapStep |-> DefaultSnapStep, isRunning |-> FALSE]
  /\ settingsRef = [isRunning |-> FALSE]
  /\ stepRequested = FALSE
  /\ frame = NoFrame
  /\ world = NoWorld
  /\ \E x \in UnitInputs :
        probe = [op |-> "input", x |-> x, dt |-> NoDelta, y |-> x, from |-> "none",
                 x0 |-> x, n |-> 0]

\* the last result is converted once more
ConvertAgain(op, dt) ==
  LET y == Convert(op, probe.y, dt)
  IN /\ Abs(y.n) <= MaxUnit
     /\ y.d <= MaxUnit
     /\ probe' = [op |-> op, x |-> probe.y, dt |-> dt, y |-> y,
                   from |-> probe.op, x0 |-> probe.x, n |-> probe.n + 1]
     /\ UNCHANGED <<editorVars, settings, settingsRef, stepRequested, frame, world>>

ConvertLength ==
  \E op \in {"metersToWorld", "worldToMeters"} :
    /\ probe.n < MaxConversions
    /\ ConvertAgain(op, NoDelta)

ConvertToStep ==
  \E op \in {"mpsToWorldVelocityBaseStep", "radpsToWorldAngularVelocityBaseStep"} :
    /\ probe.n < MaxConversions
    /\ ConvertAgain(op, NoDelta)

ConvertFromStep ==
  \E op \in {"worldVelocityStepToMps", "worldAngularVelocityStepToRadps"}, dt \in Deltas :
    /\ probe.n < MaxConversions
    /\ ConvertAgain(op, dt)

NextUnits ==
  \/ ConvertLength
  \/ ConvertToStep
  \/ ConvertFromStep

SpecUnits == InitUnits /\ [][NextUnits]_vars

\* ----------------------------------------------------------- metadata bags
\* Engine objects carry a reference to their metadata record in plugin; the
\* records live in heap, so that "the same record" is the same reference.
\* createId is not part of the sources: it is taken to return an id that no
\* record has yet.
NoRef == 0

MetaWorld(bodies, cons) ==
  [bodies |-> bodies, cons |-> cons, liveBodies |-> [k \in 1..Len(bodies) |-> k],
   liveCons |-> [k \in 1..Len(cons) |-> k], heap |-> <<>>, ids |-> 0, calls |-> 0]

\* Object.assign(existing, patch)
Assign(existing, patch) ==
  [f \in DOMAIN existing |-> IF f \in DOMAIN patch THEN patch[f] ELSE existing[f]]

NoPatch == [f \in {} |-> 0]

Returned(w, ret) == [w |-> w, ret |-> ret]

\* getBodyMeta / getConstraintMeta: the plugin entry or null
getBodyMeta(w, k) == Returned(w, w.bodies[k].plugin)
getConstraintMeta(w, k) == Returned(w, w.cons[k].plugin)

\* faulty variant: metadata is created again on every call
ensureBodyMetaAnew(w, k, patch) ==
  LET id == w.ids + 1
      meta == [id |-> id,
               label |-> IF "label" \in DOMAIN patch THEN patch.label ELSE w.bodies[k].label,
               isCharged |-> FALSE, charge |-> 0]
      ref == Len(w.heap) + 1
  IN Returned([w EXCEPT !.heap = Append(@, meta), !.ids = id, !.bodies[k].plugin = ref], ref)

ensureBodyMeta(w, k, patch) ==
  LET existing == getBodyMeta(w, k).ret
  IN IF existing # NoRef
     THEN Returned([w EXCEPT !.heap[existing] = Assign(@, patch)], existing)
     ELSE LET id == w.ids + 1
              meta == [id |-> id,
                       label |-> IF "label" \in DOMAIN patch THEN patch.label
                                 ELSE w.bodies[k].label,
                       isCharged |-> FALSE, charge |-> 0]
              ref == Len(w.heap) + 1
          IN Returned([w EXCEPT !.heap = Append(@, meta), !.ids = id,
                                !.bodies[k].plugin = ref], ref)

ensureConstraintMeta(w, k, patch) ==
  LET existing == getConstraintMeta(w, k).ret
  IN IF existing # NoRef
     THEN Returned([w EXCEPT !.heap[existing] = Assign(@, patch),
                             !.cons[k].plugin = existing], existing)
     ELSE LET id == w.ids + 1
              meta == [id |-> id,
                       kind |-> IF "kind" \in DOMAIN patch THEN patch.kind ELSE "rod",
                       label |-> IF "label" \in DOMAIN patch THEN patch.label
                                 ELSE w.cons[k].label]
              ref == Len(w.heap) + 1
          IN Returned([w EXCEPT !.heap = Append(@, meta), !.ids = id,
                                !.cons[k].plugin = ref], ref)

\* the first entity of the list, in world order, whose metadata has the id
FirstWithId(w, entities, live, id) ==
  LET hits == SelectSeq(live, LAMBDA k : /\ entities[k].plugin # NoRef
                                          /\ w.heap[entities[k].plugin].id = id)
  IN Returned(w, IF hits = <<>> THEN NoRef ELSE Head(hits))

\* bodyMeta.ts findBodyByMetaId: a scan of allBodies
findLiveBodyByMetaId(w, id) == FirstWithId(w, w.bodies, w.liveBodies, id)

findConstraintByMetaId(w, id) == FirstWithId(w, w.cons, w.liveCons, id)

BodyPatches == {NoPatch, [label |-> "Ball"], [label |-> "Charge A", isCharged |-> TRUE, charge |-> 1]}
ConstraintPatches == {NoPatch, [kind |-> "spring"], [label |-> "Rope"]}

\* the ids a restored state can carry: those in use and one that is not
PatchIds == {ForeignId} \cup {world.heap[r].id : r \in 1..Len(world.heap)}

\* two bodies and a constraint just created by the engine, without metadata
InitMeta ==
  /\ StartEditor(InitMachine)
  /\ scope = BaseScope
  /\ settings = [snapEnabled |-> FALSE, snapStep |-> DefaultSnapStep, isRunning |-> FALSE]
  /\ settingsRef = [isRunning |-> FALSE]
  /\ stepRequested = FALSE
  /\ frame = NoFrame
  /\ probe = NoProbe
  /\ world = MetaWorld(<<[label |-> "Circle Body", plugin |-> NoRef],
                         [label |-> "Rectangle Body", plugin |-> NoRef]>>,
                       <<[label |-> "Constraint", plugin |-> NoRef]>>)

MetaCall(op, k, patch, r) ==
  /\ world.calls < MaxMetaCalls
  /\ world' = [r.w EXCEPT !.calls = @ + 1]
  /\ probe' = [op |-> op, k |-> k, patch |-> patch, ret |-> r.ret, before |-> world]
  /\ UNCHANGED <<editorVars, settings, settingsRef, stepRequested, frame>>

EnsureBodyMeta ==
  \E k \in 1..Len(world.bodies), patch \in BodyPatches \cup {[id |-> i] : i \in PatchIds} :
    MetaCall("ensureBodyMeta", k, patch, ensureBodyMeta(world, k, patch))

EnsureConstraintMeta ==
  \E k \in 1..Len(world.cons),
     patch \in ConstraintPatches \cup {[id |-> i, kind |-> "rope"] : i \in PatchIds} :
    MetaCall("ensureConstraintMeta", k, patch, ensureConstraintMeta(world, k, patch))

\* Matter.Composite.remove of a body
RemoveBody ==
  \E k \in Range(world.liveBodies) :
    MetaCall("remove", k, NoPatch,
             Returned([world EXCEPT !.liveBodies = SelectSeq(@, LAMBDA b : b # k)], NoRef))

NextMeta ==
  \/ EnsureBodyMeta
  \/ EnsureConstraintMeta
  \/ RemoveBody

SpecMeta == InitMeta /\ [][NextMeta]_vars

\* ------------------------------------------------------------------ claims
EditSources == {"pointerUp", "deleteSelected", "deleteFieldById", "paste", "duplicate"}

UndoRestoresSelection ==
  hist.op = "commit_undo" /\ hist.ok /\ hist.src \in EditSources
    => SelectionOf(Scene) = hist.pre.sel

\* C3: a redo right after the undo that follows a commit reproduces the state
\* right after the commit: entities, fields and selection.
RedoReproducesCommit ==
  hist.op = "commit_undo_redo" => Snap(Scene) = hist.post

RedoReproducesCommitWitness ==
  /\ hist.op = "commit_undo_redo"
  /\ hist.pre # hist.post
  /\ Snap(Scene) = hist.post

\* C4: a commit runs the forward effect of its action exactly once on the scene
\* it was entered in, leaves the action on top of the undo stack and leaves
\* the redo stack empty.
CommitRunsOnceAndPushes ==
  hist.op = "commit" =>
    /\ undoStack # <<>>
    /\ Last(undoStack).id = fresh.act - 1
    /\ redoStack = <<>>
    /\ Scene = RedoEffect(Last(undoStack), hist.at.sc)

CommitRunsOnceAndPushesWitness ==
  /\ hist.op = "commit"
  /\ hist.at.h.redo # <<>>
  /\ Scene # hist.at.sc
  /\ redoStack = <<>>

\* C5: undo pops the top of the undo stack, runs its backward effect once and
\* pushes it on the redo stack; redo does the converse; on an empty source
\* stack neither changes the stacks, the scene or the selection.
UndoRedoContract ==
  [][ /\ hist'.op \in {"undo", "undo_noop", "commit_undo"} =>
           IF undoStack = <<>>
           THEN UNCHANGED <<sceneVars, historyVars>>
           ELSE /\ undoStack' = Front(undoStack)
                /\ redoStack' = Append(redoStack, Last(undoStack))
                /\ Scene' = UndoEffect(Last(undoStack), Scene)
      /\ hist'.op \in {"redo", "redo_noop", "commit_undo_redo"} =>
           IF redoStack = <<>>
           THEN UNCHANGED <<sceneVars, historyVars>>
           ELSE /\ redoStack' = Front(redoStack)
                /\ undoStack' = Append(undoStack, Last(redoStack))
                /\ Scene' = RedoEffect(Last(redoStack), Scene) ]_vars

UndoRedoContractWitness ==
  /\ hist.op = "redo"
  /\ undoStack # <<>>
  /\ redoStack # <<>>

\* ------------------------------------------------- the history at its cap
\* One body, and its charged flag toggled in the inspector over and over;
\* undo is pressed only when the undo stack is within NearCap of the cap.
InitHistory ==
  /\ StartFrom(OneBody)
  /\ scope = [BaseScope EXCEPT !.commits = HistoryCap + MaxOverflow]

NextHistory ==
  \/ InspectorToggleCharged
  \/ (Len(undoStack) > HistoryCap - NearCap /\ UndoKey)
  \/ RedoKey

SpecHistory == InitHistory /\ [][NextHistory]_vars

\* C6: the undo stack never holds more than 200 actions; a commit on a full
\* stack discards the oldest action and keeps the other 199 in order under
\* the new one.
HistoryIsCapped ==
  [][ /\ Len(undoStack') <= HistoryCap
      /\ hist'.op = "commit" =>
           /\ Last(undoStack').id = fresh.act
           /\ Front(undoStack') = IF Len(undoStack) = HistoryCap THEN Tail(undoStack)
                                  ELSE undoStack ]_vars

HistoryIsCappedWitness ==
  /\ hist.op = "commit"
  /\ Len(hist.at.h.undo) = HistoryCap
  /\ Len(undoStack) = HistoryCap
  /\ undoStack[1].id = hist.at.h.undo[2].id

\* C7: a reset leaves both stacks empty, so that undo and redo change nothing
\* afterwards, and once the engine effect has run no interaction is in flight.
ResetClearsHistory ==
  /\ hist.op \in {"reset", "effect"} =>
       /\ undoStack = <<>>
       /\ redoStack = <<>>
       /\ undoKey(Machine) = Machine
       /\ redoKey(Machine) = Machine
  /\ hist.op = "effect" => interaction = NoInteraction

ResetClearsHistoryWitness ==
  /\ hist.op = "effect"
  /\ hist.ev.kind # "none"
  /\ hist.at.h.undo # <<>>
  /\ hist.at.h.redo # <<>>
  /\ interaction = NoInteraction

\* C8: whatever the kind of the interaction in flight, the pointer-up of the
\* pointer that owns it leaves no interaction in flight.
ReleaseEndsInteraction ==
  hist.ev.type = "up" /\ hist.ev.kind # "none" /\ hist.ev.pid = hist.ev.owner
    => interaction = NoInteraction

ReleaseEndsInteractionWitness ==
  /\ hist.ev.type = "up"
  /\ hist.ev.kind = "resize_field"
  /\ hist.ev.pid = hist.ev.owner
  /\ hist.op = "commit"
  /\ interaction = NoInteraction

\* C9: while the gesture of one pointer is in flight, a pointer-down, -move
\* or -up of another pointer leaves that gesture's interaction in place.
OtherPointerIsIgnored ==
  /\ hist.ev.type \in {"down", "move", "up"}
  /\ hist.ev.kind # "none"
  /\ hist.ev.pid # hist.ev.owner
  => /\ interaction.kind = hist.ev.kind
     /\ interaction.pointerId = hist.ev.owner

BodyGestures == {"move_selection", "rotate_body", "resize_body", "drag_constraint_anchor"}

\* C10: the release of a move, rotate, resize or anchor-drag gesture that
\* changed the scene commits exactly one action, and undoing that action
\* restores the entities of before the gesture.
GestureRecordsOneAction ==
  /\ hist.op \in {"release", "commit"}
  /\ hist.ev.type = "up"
  /\ hist.ev.kind \in BodyGestures
  /\ hist.ok
  /\ hist.pre.ent # hist.post.ent
  => /\ hist.n = 1
     /\ undoStack # <<>>
     /\ Entities(undo(History, Scene).sc) = hist.pre.ent

\* C11: a pointer-down and a pointer-move push nothing on the undo stack and
\* leave the redo stack alone; a pointer-up pushes one action at most, however
\* many moves the drag was made of.
PointerCommitsOnReleaseOnly ==
  [][ hist'.op \in {"commit", "release", "other"} =>
        /\ hist'.ev.type \in {"down", "move"} => UNCHANGED historyVars
        /\ hist'.ev.type = "up" =>
              \/ UNCHANGED historyVars
              \/ /\ hist'.n = 1
                 /\ Front(undoStack') = undoStack
                 /\ redoStack' = <<>> ]_vars

PointerCommitsOnReleaseOnlyWitness ==
  /\ hist.op = "commit"
  /\ hist.ev.type = "up"
  /\ hist.ev.kind = "move_field"
  /\ hist.n = 1
  /\ Len(undoStack) = Len(hist.at.h.undo) + 1
  /\ hist.pre.ent # hist.post.ent

\* what a press resolves to, by what it hit
ResolvedKind(hit) ==
  CASE hit.kind = "body" -> "move_selection"
    [] hit.kind = "field" -> IF FieldIndex(fields, hit.id) >= 0 THEN "move_field"
                             ELSE "select_press"
    [] hit.kind = "empty" -> "box_select"

\* C12 as stated: a select_press stays as it is, and nothing changes, as long
\* as the pointer has not moved by more than the threshold (16, squared
\* pixels) from the press; a move beyond the threshold resolves it to
\* move_selection, move_field or box_select by what the press hit.
PressResolvesBeyondThreshold ==
  interaction.kind = "select_press" =>
    \A p \in MovePts :
      IF Dist2(p, interaction.startWorld.x, interaction.startWorld.y) <= ClickDragThreshold2
      THEN onPointerMove(Machine, interaction.pointerId, p) = Machine
      ELSE onPointerMove(Machine, interaction.pointerId, p).inter.kind
             = ResolvedKind(interaction.hit)

\* C12 as amended: the dead zone ends where the squared distance from the
\* press point reaches 16; the move event that reaches it resolves the press.
PressResolvesAtThreshold ==
  interaction.kind = "select_press" =>
    \A p \in MovePts :
      IF Dist2(p, interaction.startWorld.x, interaction.startWorld.y) < ClickDragThreshold2
      THEN onPointerMove(Machine, interaction.pointerId, p) = Machine
      ELSE onPointerMove(Machine, interaction.pointerId, p).inter.kind
             = ResolvedKind(interaction.hit)

PressResolvesAtThresholdWitness ==
  /\ interaction.kind = "box_select"
  /\ hist.ev.type = "move"
  /\ hist.ev.kind = "select_press"
  /\ Dist2(interaction.currentWorld, interaction.startWorld.x, interaction.startWorld.y)
       = ClickDragThreshold2

\* C13 as stated: a press on a body that is released without leaving the
\* dead zone never becomes a move_selection, changes no body and leaves the
\* selection as it was.
ClickKeepsSelection ==
  interaction.kind = "select_press" /\ interaction.hit.kind = "body" =>
    \A p \in UpPts :
      /\ onPointerUp(Machine, interaction.pointerId, p).inter = NoInteraction
      /\ Entities(onPointerUp(Machine, interaction.pointerId, p).sc) = Entities(Scene)
      /\ SelectionOf(onPointerUp(Machine, interaction.pointerId, p).sc) = SelectionOf(Scene)

\* the body ids a click on body id leaves selected
ClickedIds(ids, id, shiftKey) ==
  IF ~shiftKey THEN <<id>>
  ELSE IF id \in Range(ids) THEN SeqFilterOut(ids, {id})
  ELSE Append(ids, id)

\* C13 as amended: such a press never becomes a move_selection and changes
\* no body; its release is a click on the pressed body: without Shift that
\* body alone is selected (nothing changes when it was the only selected body
\* already), with Shift the body is toggled in the list of selected bodies.
ClickSelectsPressedBody ==
  interaction.kind = "select_press" /\ interaction.hit.kind = "body" =>
    \A p \in UpPts :
      LET m2 == onPointerUp(Machine, interaction.pointerId, p)
          ids == ClickedIds(selectedBodyIds, interaction.hit.id, interaction.shiftKey)
      IN /\ m2.inter = NoInteraction
         /\ Entities(m2.sc) = Entities(Scene)
         /\ m2.h = History
         /\ m2.sc.selectedBodyIds = ids
         /\ m2.sc.selected = IF ids = <<>> THEN SelNone
                             ELSE IF interaction.hit.id \in Range(ids)
                             THEN SelBody(interaction.hit.id)
                             ELSE SelBody(Last(ids))
         /\ (~interaction.shiftKey /\ selectedBodyIds = <<interaction.hit.id>>
               /\ selected = SelBody(interaction.hit.id))
              => SelectionOf(m2.sc) = SelectionOf(Scene)

ClickSelectsPressedBodyWitness ==
  /\ hist.op = "release"
  /\ hist.ev.type = "up"
  /\ hist.ev.kind = "select_press"
  /\ hist.ok
  /\ hist.pre.ent = hist.post.ent
  /\ Len(hist.pre.sel.selectedBodyIds) = 2
  /\ Len(selectedBodyIds) = 1
  /\ interaction = NoInteraction

\* the bodies whose centre lies in the rectangle swept by the box select in flight
BodiesInBox ==
  {b \in Range(worldBodies) :
     /\ bodyObj[b].x >= Min(interaction.startWorld.x, interaction.currentWorld.x)
     /\ bodyObj[b].x <= Max(interaction.startWorld.x, interaction.currentWorld.x)
     /\ 0 >= Min(interaction.startWorld.y, interaction.currentWorld.y)
     /\ 0 <= Max(interaction.startWorld.y, interaction.currentWorld.y)}

\* C14: the release of a box select selects exactly the bodies whose centre
\* lies in the swept rectangle, together with the bodies selected when the
\* gesture began if it is additive; with no body in the rectangle a plain
\* box select clears the selection and an additive one leaves it as it is.
BoxSelectsSweptBodies ==
  interaction.kind = "box_select" /\ hist.clean =>
    \A p \in UpPts :
      LET m2 == onPointerUp(Machine, interaction.pointerId, p)
          base == IF interaction.additive THEN Range(hist.base.sel.selectedBodyIds) ELSE {}
      IN /\ Entities(m2.sc) = Entities(Scene)
         /\ m2.h = History
         /\ IF BodiesInBox # {}
            THEN /\ Range(m2.sc.selectedBodyIds) = BodiesInBox \cup base
                 /\ Len(m2.sc.selectedBodyIds) = Cardinality(BodiesInBox \cup base)
                 /\ m2.sc.selected.kind = "body"
                 /\ m2.sc.selected.id \in BodiesInBox
            ELSE IF interaction.additive
            THEN SelectionOf(m2.sc) = hist.base.sel
            ELSE m2.sc.selected = SelNone /\ m2.sc.selectedBodyIds = <<>>

BoxSelectsSweptBodiesWitness ==
  /\ hist.op = "release"
  /\ hist.ev.type = "up"
  /\ hist.ev.kind = "box_select"
  /\ hist.ok
  /\ Len(hist.pre.sel.selectedBodyIds) = 1
  /\ Len(selectedBodyIds) = 2
  /\ interaction = NoInteraction

\* the rope groups the selection touches: those of its selected segments and
\* those of the constraints attached to a selected body
SelectedBodies ==
  {b \in Range(worldBodies) :
     b \in Range(selectedBodyIds) \/ (selectedBodyIds = <<>> /\ selected = SelBody(b))}

TouchedRopes ==
  ({bodyObj[b].rope : b \in SelectedBodies}
   \cup {conObj[c].rope : c \in {c \in Range(worldCons) :
                                    conObj[c].a \in SelectedBodies \/ conObj[c].b \in SelectedBodies}})
  \ {NoId}

RopeParts(sc, groups) ==
  [bodies |-> {b \in Range(sc.worldBodies) : sc.bodyObj[b].rope \in groups},
   cons |-> {c \in Range(sc.worldCons) : sc.conObj[c].rope \in groups}]

\* C15: when the selection holds a rope segment or a body a rope is attached
\* to, deleting it commits one action after which no body and no constraint of
\* that rope group is left, and one undo brings all of them back.
RopeDeletedWhole ==
  selected.kind = "body" /\ TouchedRopes # {} =>
    LET m2 == deleteSelected(Machine)
        back == undoKey(m2)
    IN /\ Len(m2.log) = 1
       /\ Len(m2.h.undo) = Len(undoStack) + 1
       /\ RopeParts(m2.sc, TouchedRopes) = [bodies |-> {}, cons |-> {}]
       /\ SelectedBodies \cap Range(m2.sc.worldBodies) = {}
       /\ Entities(back.sc) = Entities(Scene)
       /\ back.h.undo = undoStack

\* a rope was deleted through a selected endpoint body and then restored
RopeDeletedWholeWitness ==
  /\ hist.op = "commit_undo"
  /\ hist.src = "deleteSelected"
  /\ selected.kind = "body"
  /\ bodyObj[selected.id].rope = NoId
  /\ TouchedRopes # {}
  /\ Cardinality(RopeParts(Scene, TouchedRopes).bodies) >= MinRopeSegments
  /\ Entities(Scene) = hist.pre.ent
  /\ RopeParts([Scene EXCEPT !.worldBodies = SelectSeq(@, LAMBDA b : b \in DOMAIN hist.post.ent.bodies),
                             !.worldCons = SelectSeq(@, LAMBDA c : c \in DOMAIN hist.post.ent.cons)],
               TouchedRopes) = [bodies |-> {}, cons |-> {}]

\* the number of segments the rope of a given length is to have
SegmentsFor(d) ==
  IF d < MinRopeSegments * RopeSegmentPx THEN MinRopeSegments
  ELSE IF d >= MaxRopeSegments * RopeSegmentPx THEN MaxRopeSegments
  ELSE d \div RopeSegmentPx

\* C16: a rope drawn over the distance d adds clamp(floor(d / 60), 6, 18)
\* segment bodies and one constraint more than that, and all of them carry
\* one and the same rope group id, which no earlier object carries.
RopeHasClampedSegments ==
  interaction.kind = "constraint" /\ interaction.tool = "rope" =>
    \A p \in UpPts :
      LET m2 == onPointerUp(Machine, interaction.pointerId, p)
          endBody == queryBodyAtPoint(Scene, p)
          endX == IF endBody # NoId THEN bodyObj[endBody].x ELSE p.x
          d == Abs(endX - bodyObj[interaction.startBody].x)
          newBodies == Range(m2.sc.worldBodies) \ Range(worldBodies)
          newCons == Range(m2.sc.worldCons) \ Range(worldCons)
          groups == {m2.sc.bodyObj[b].rope : b \in newBodies}
                    \cup {m2.sc.conObj[c].rope : c \in newCons}
          used == {bodyObj[b].rope : b \in DOMAIN bodyObj} \cup {conObj[c].rope : c \in DOMAIN conObj}
      IN Len(m2.log) = 1 =>
           /\ Cardinality(newBodies) = SegmentsFor(d)
           /\ Cardinality(newCons) = Cardinality(newBodies) + 1
           /\ Cardinality(groups) = 1
           /\ NoId \notin groups
           /\ groups \cap used = {}

\* a rope of seven segments and eight constraints was drawn
RopeHasClampedSegmentsWitness ==
  /\ hist.op = "commit"
  /\ hist.ev.type = "up"
  /\ hist.ev.kind = "constraint"
  /\ Cardinality(DOMAIN hist.post.ent.bodies \ DOMAIN hist.pre.ent.bodies) = MinRopeSegments + 1
  /\ Cardinality(DOMAIN hist.post.ent.cons \ DOMAIN hist.pre.ent.cons) = MinRopeSegments + 2
  /\ \A c \in Range(worldCons) : conObj[c].rope # NoId

\* C17: the release of a constraint gesture over another body commits exactly
\* one action that adds a constraint between the two bodies (a chain from the
\* one to the other for the rope tool); over empty space farther than 24 px
\* from the source body it commits exactly one action that anchors the source
\* body to that point; over the source body, or nearer than that, it commits
\* nothing and leaves the history and the scene as they were.
ConstraintReleaseCommitsOnce ==
  interaction.kind = "constraint" =>
    \A p \in UpPts :
      LET m2 == onPointerUp(Machine, interaction.pointerId, p)
          src == interaction.startBody
          over == queryBodyAtPoint(Scene, p)
          newBodies == Range(m2.sc.worldBodies) \ Range(worldBodies)
          newCons == Range(m2.sc.worldCons) \ Range(worldCons)
          ends(c) == {m2.sc.conObj[c].a, m2.sc.conObj[c].b}
          once == /\ Len(m2.log) = 1
                  /\ m2.h.redo = <<>>
                  /\ Last(m2.h.undo).type = "worldAdd"
                  /\ undoKey(m2).h.undo = undoStack
                  /\ Entities(undoKey(m2).sc) = Entities(Scene)
          direct == /\ newBodies = {}
                    /\ Cardinality(newCons) = 1
                    /\ \A c \in newCons : m2.sc.conObj[c].kind = interaction.tool
          chain == /\ newBodies # {}
                   /\ \E c \in newCons : src \in ends(c)
                   /\ \A c \in newCons : ends(c) \subseteq newBodies \cup {src, over}
      IN /\ m2.inter = NoInteraction
         /\ IF over # NoId /\ over # src
            THEN /\ once
                 /\ \A c \in newCons : m2.sc.conObj[c].pb = NoPoint
                 /\ \E c \in newCons : over \in ends(c)
                 /\ IF interaction.tool = "rope" THEN chain
                    ELSE direct /\ \A c \in newCons : ends(c) = {src, over}
            ELSE IF over = NoId /\ Abs(p.x - bodyObj[src].x) > MinAnchorDist
            THEN /\ once
                 /\ Cardinality({c \in newCons : m2.sc.conObj[c].pb = p.x}) = 1
                 /\ IF interaction.tool = "rope" THEN chain
                    ELSE direct /\ \A c \in newCons : ends(c) = {src, NoId}
            ELSE /\ m2.log = <<>>
                 /\ m2.h = History
                 /\ m2.sc = Scene

\* a rod or spring was anchored to a point just beyond the minimum distance
ConstraintReleaseCommitsOnceWitness ==
  /\ hist.op = "commit"
  /\ hist.ev.type = "up"
  /\ hist.ev.kind = "constraint"
  /\ DOMAIN hist.post.ent.bodies = DOMAIN hist.pre.ent.bodies
  /\ \E c \in DOMAIN hist.post.ent.cons \ DOMAIN hist.pre.ent.cons :
        /\ conObj[c].b = NoId
        /\ Abs(conObj[c].pb - bodyObj[conObj[c].a].x) = MinAnchorDist + 1

\* the targets of a press with the select tool
OnBodyHandle(p) ==
  LET b == IF selected.kind = "body" /\ Len(selectedBodyIds) <= 1
           THEN findBodyByMetaId(Scene, selected.id) ELSE NoId
  IN /\ b # NoId
     /\ \/ Dist2(p, bodyObj[b].x, -bodyObj[b].r - RotateHandlePx) <= HitR2
        \/ /\ \E sx \in {-1, 1}, sy \in {-1, 1} :
                 Dist2(p, bodyObj[b].x + sx * bodyObj[b].r, sy * bodyObj[b].r) <= HitR2
           /\ Dist2(p, bodyObj[b].x, 0) > 0

OnAnchorHandle(p) ==
  \E c \in Range(worldCons) : conObj[c].b = NoId /\ Dist2(p, conObj[c].pb, 0) <= HitR2

OnFieldHandle(p) ==
  /\ selected.kind = "field"
  /\ FieldIndex(fields, selected.id) >= 0
  /\ LET f == FindField(fields, selected.id)
     IN \/ Dist2(p, f.x, 0) <= HitR2
        \/ \E sx \in {-1, 1}, sy \in {-1, 1} :
             Dist2(p, f.x + sx * (f.w \div 2), sy * (f.h \div 2)) <= HitR2

\* C18: a press with the select tool goes to the first target it hits in the
\* order: a rotate or resize handle of the selected body, the endpoint handle
\* of a constraint, a move or resize handle of the selected field, a body, a
\* field; only a press that hits none of them is a select_press on empty
\* canvas.
SelectDownFollowsPriority ==
  tool = "select" /\ interaction.kind = "none" =>
    \A p \in DownPts, shiftKey \in BOOLEAN :
      LET i == onPointerDown(Machine, 1, p, shiftKey, FALSE).inter
      IN IF OnBodyHandle(p) THEN i.kind \in {"rotate_body", "resize_body"}
         ELSE IF OnAnchorHandle(p) THEN i.kind = "drag_constraint_anchor"
         ELSE IF OnFieldHandle(p) THEN i.kind \in {"move_field", "resize_field"}
         ELSE /\ i.kind = "select_press"
              /\ i.hit.kind = IF queryBodyAtPoint(Scene, p) # NoId THEN "body"
                              ELSE IF queryFieldAtPoint(fields, p) # NoId THEN "field"
                              ELSE "empty"

\* what a press with tool t at p is to start, by the tool and the hit test
\* alone; TRUE for the select tool, whose order is stated apart
StartsByTool(t, p, m2) ==
  CASE t = "pan" -> m2.inter.kind = "pan"
    [] t \in DrawTools -> m2.inter.kind = "draw"
    [] t = "ruler" -> m2.inter.kind = "measure_ruler"
    [] t = "protractor" -> m2.inter.kind = "measure_protractor"
    [] t \in ConstraintTools ->
         IF queryBodyAtPoint(Scene, p) # NoId THEN m2.inter.kind = "constraint"
         ELSE /\ m2.inter.kind = "none"
              /\ m2.sc = Scene
              /\ m2.h = History
    [] OTHER -> TRUE

\* C19 as stated: from the none state the interaction a pointer-down starts
\* is determined by the tool and the hit test, whatever button and modifier
\* keys come with the press.
DownKindByToolAndHit ==
  interaction.kind = "none" =>
    \A t \in AllTools, p \in DownPts, shiftKey \in BOOLEAN, panKey \in BOOLEAN :
      StartsByTool(t, p, onPointerDown([Machine EXCEPT !.tool = t], 1, p, shiftKey, panKey))

\* C19, amended: a press with the middle button or with Alt held starts a pan
\* with every tool; any other press from the none state starts what the tool
\* and the hit test determine.
DownKindByToolHitAndPanKey ==
  interaction.kind = "none" =>
    \A t \in AllTools, p \in DownPts, shiftKey \in BOOLEAN :
      /\ StartsByTool(t, p, onPointerDown([Machine EXCEPT !.tool = t], 1, p, shiftKey, FALSE))
      /\ LET m2 == onPointerDown([Machine EXCEPT !.tool = t], 1, p, shiftKey, TRUE)
         IN m2.inter.kind = "pan" /\ m2.sc = Scene /\ m2.h = History

\* a press with Alt held has started a pan while a drawing tool is active
DownKindByToolHitAndPanKeyWitness ==
  /\ hist.ev.type = "down"
  /\ interaction.kind = "pan"
  /\ tool \in DrawTools

\* C20: while a selection is moved, every selected body is away from the
\* position captured for it when the move began by one and the same vector,
\* the pointer's displacement from the press point, and no other body is moved.
SelectionMovesRigidly ==
  interaction.kind = "move_selection" /\ hist.clean =>
    LET starts == interaction.starts
        moved == {starts[k].id : k \in 1..Len(starts)}
    IN /\ moved = Range(selectedBodyIds) \cap Range(worldBodies)
       /\ \A k \in 1..Len(starts) : starts[k].x = hist.base.ent.bodies[starts[k].id].x
       /\ \A j, k \in 1..Len(starts) :
            bodyObj[starts[j].id].x - starts[j].x = bodyObj[starts[k].id].x - starts[k].x
       /\ \A b \in Range(worldBodies) \ moved : bodyObj[b] = hist.base.ent.bodies[b]
       /\ \A p \in MovePts :
            LET m2 == onPointerMove(Machine, interaction.pointerId, p)
            IN /\ \A k \in 1..Len(starts) :
                    m2.sc.bodyObj[starts[k].id].x - starts[k].x = p.x - interaction.startWorld.x
               /\ \A b \in Range(worldBodies) \ moved : m2.sc.bodyObj[b] = bodyObj[b]
               /\ m2.sc.worldBodies = worldBodies

\* two selected bodies have been dragged away from where they were
SelectionMovesRigidlyWitness ==
  /\ interaction.kind = "move_selection"
  /\ hist.clean
  /\ hist.ev.type = "move"
  /\ Len(interaction.starts) = 2
  /\ \A k \in 1..2 : bodyObj[interaction.starts[k].id].x # interaction.starts[k].x

\* C21: with snapping enabled every move of a move_selection puts the primary
\* body, and every move of a move_field puts the field's centre, on the
\* multiple of the snap step nearest to the start position plus the pointer's
\* displacement (the result is rounded, not the displacement); with snapping
\* disabled they are put at the start position plus the displacement.
DragEndsOnGrid ==
  interaction.kind \in {"move_selection", "move_field"} =>
    \A p \in MovePts :
      LET i == interaction
          m2 == onPointerMove(Machine, i.pointerId, p)
          step == settings.snapStep
          dx == p.x - i.startWorld.x
          lands(x2, target) ==
            IF settings.snapEnabled
            THEN x2 % step = 0 /\ 2 * Abs(x2 - target) <= step
            ELSE x2 = target
      IN IF i.kind = "move_selection"
         THEN \A k \in 1..Len(i.starts) :
                i.starts[k].id = i.primaryId /\ i.primaryId \in Range(worldBodies) =>
                  lands(m2.sc.bodyObj[i.primaryId].x, i.starts[k].x + dx)
         ELSE FieldIndex(fields, i.fieldId) >= 0 =>
                lands(FindField(m2.sc.fields, i.fieldId).x, i.startField.x + dx)

\* a body that began off the grid has been dragged onto a grid point
DragEndsOnGridWitness ==
  /\ interaction.kind = "move_selection"
  /\ hist.ev.type = "move"
  /\ settings.snapEnabled
  /\ \E k \in 1..Len(interaction.starts) :
        /\ interaction.starts[k].id = interaction.primaryId
        /\ interaction.starts[k].x % settings.snapStep # 0
        /\ bodyObj[interaction.primaryId].x % settings.snapStep = 0
        /\ bodyObj[interaction.primaryId].x # interaction.starts[k].x

\* C22: a frame performs the physics step exactly when the running flag is set
\* or a single-step request is pending, and the step clears the request: while
\* paused, requestStep calls made since the last frame (and not dropped by a
\* reset) give one step in the next frame and none in the frame after it, and
\* a paused frame with nothing requested performs no step.
FrameStepsWhenDue ==
  LET r == draw(settingsRef, stepRequested)
      again == draw(settingsRef, r.stepRequested)
  IN /\ settingsRef.isRunning = settings.isRunning
     /\ r.stepped <=> (settings.isRunning \/ stepRequested)
     /\ r.stepped => ~r.stepRequested
     /\ stepRequested <=> frame.asked >= 1
     /\ ~settings.isRunning /\ frame.asked >= 1 => r.stepped /\ ~again.stepped
     /\ ~settings.isRunning /\ frame.asked = 0 => ~r.stepped
     /\ frame.frames > 0 => (frame.stepped <=> frame.due)

\* paused, a frame without a request made no step, then the step button was
\* pressed and the next frame made the one step
FrameStepsWhenDueWitness ==
  /\ ~settings.isRunning
  /\ frame.stepped
  /\ frame.due
  /\ ~stepRequested
  /\ frame.asked = 0
  /\ frame.steps = 1
  /\ frame.frames >= 2

\* the Coulomb forces applied to body k because of body o in one call
CoulombBy(forces, k, o) ==
  SelectSeq(forces, LAMBDA e : e.kind = "coulomb" /\ e.to = k /\ e.by = o)

\* f is not zero and points along d
PointsAlong(f, d) ==
  /\ ~f.nan
  /\ f.x * d.y = f.y * d.x
  /\ f.x * d.x + f.y * d.y > 0

Sign(q) == IF q > 0 THEN 1 ELSE IF q < 0 THEN -1 ELSE 0

\* C23: the Coulomb force applied to a charged body because of another charged
\* body at a nonzero separation points away from that body when the charges
\* have the same sign and toward it when they have opposite signs.
CoulombRepelsLikeCharges ==
  LET forces == EmForces(world.bodies, world.fields)
  IN \A n \in 1..Len(forces) :
       LET e == forces[n]
           a == world.bodies[e.to]
           b == world.bodies[e.by]
           away == Pt(a.position.x - b.position.x, a.position.y - b.position.y)
           s == Sign(a.meta.charge) * Sign(b.meta.charge)
       IN e.kind = "coulomb" /\ away # Pt(0, 0) =>
            PointsAlong(e.f, Pt(s * away.x, s * away.y))

\* the indices of the charged bodies, as a set
ChargedSet == Range(Charged(world.bodies))

\* C24: every unordered pair of charged bodies is evaluated once per call: two
\* static bodies get nothing, two non-static bodies get one force each and
\* the two are negations of each other, and of a static and a non-static body
\* only the non-static one gets a force.
CoulombPairOnce ==
  LET forces == EmForces(world.bodies, world.fields)
  IN \A i \in ChargedSet, j \in ChargedSet :
       i < j =>
         LET a == world.bodies[i]
             b == world.bodies[j]
             onA == CoulombBy(forces, i, j)
             onB == CoulombBy(forces, j, i)
         IN /\ Len(onA) = (IF a.isStatic THEN 0 ELSE 1)
            /\ Len(onB) = (IF b.isStatic THEN 0 ELSE 1)
            /\ ~a.isStatic /\ ~b.isStatic => onB[1].f = NegVec(onA[1].f)

\* a call has given two non-static charges opposite nonzero forces while a
\* third, static charge got none
CoulombPairOnceWitness ==
  /\ probe.op = "em"
  /\ \E i \in ChargedSet, j \in ChargedSet, k \in ChargedSet :
        /\ i < j
        /\ ~world.bodies[i].isStatic
        /\ ~world.bodies[j].isStatic
        /\ world.bodies[k].isStatic
        /\ world.bodies[k].position = world.bodies[i].position
        /\ probe.bodies[i].force # zero
        /\ probe.bodies[j].force # zero
        /\ probe.bodies[k].force = zero
        /\ CoulombBy(EmForces(world.bodies, world.fields), j, k) # <<>>

\* the bodies the electromagnetism leaves out: static ones and those that are
\* not charged
Uncharged(b) ==
  \/ b.meta = NoMeta
  \/ ~b.meta.isCharged
  \/ b.meta.charge = 0
  \/ b.meta.charge = NonFiniteQ

\* C25 as stated: no force of any kind is applied to a body that is static or
\* not charged, none is applied because of it, and it has no breakdown entry.
ExcludedNeitherFeelNorExert ==
  LET forces == EmForces(world.bodies, world.fields)
      r == applyElectromagnetism(world.bodies, world.fields)
  IN \A k \in 1..Len(world.bodies) :
       world.bodies[k].isStatic \/ Uncharged(world.bodies[k]) =>
         /\ r.bodies[k].force = zero
         /\ \A n \in 1..Len(forces) : forces[n].to # k
         /\ world.bodies[k].id \notin DOMAIN r.breakdown
         /\ \A n \in 1..Len(forces) : forces[n].kind = "coulomb" => forces[n].by # k

\* C25: no force of any kind is applied to a body that is static or not
\* charged, and it has no breakdown entry; no Coulomb force is applied because
\* of a body that is not charged, while a static charged body does act on the
\* non-static charged bodies.
ExcludedFeelNothing ==
  LET forces == EmForces(world.bodies, world.fields)
      r == applyElectromagnetism(world.bodies, world.fields)
  IN \A k \in 1..Len(world.bodies) :
       /\ world.bodies[k].isStatic \/ Uncharged(world.bodies[k]) =>
            /\ r.bodies[k].force = zero
            /\ \A n \in 1..Len(forces) : forces[n].to # k
            /\ world.bodies[k].id \notin DOMAIN r.breakdown
       /\ Uncharged(world.bodies[k]) =>
            \A n \in 1..Len(forces) : forces[n].kind = "coulomb" => forces[n].by # k
       /\ world.bodies[k].isStatic /\ ~Uncharged(world.bodies[k]) =>
            \A o \in ChargedSet :
              ~world.bodies[o].isStatic => Len(CoulombBy(forces, o, k)) = 1

\* a call has left a static charge inside a field and a body without metadata
\* untouched, and has pushed a non-static charge because of the static one
ExcludedFeelNothingWitness ==
  /\ probe.op = "em"
  /\ world.fields # <<>>
  /\ \E k \in ChargedSet, u \in 1..Len(world.bodies), o \in ChargedSet :
        /\ world.bodies[k].isStatic
        /\ isPointInRegion(world.fields[1], world.bodies[k].position)
        /\ probe.bodies[k].force = zero
        /\ world.bodies[k].id \notin DOMAIN probe.breakdown
        /\ world.bodies[u].meta = NoMeta
        /\ probe.bodies[u].force = zero
        /\ ~world.bodies[o].isStatic
        /\ world.bodies[o].position # world.bodies[k].position
        /\ world.bodies[o].id \in DOMAIN probe.breakdown
        /\ probe.breakdown[world.bodies[o].id].coulomb # zero

\* the forces of kind k applied to body b because of field f in one call
FieldBy(forces, b, f) ==
  SelectSeq(forces, LAMBDA e : e.kind # "coulomb" /\ e.to = b /\ e.by = f.id)

\* within half the width and half the height of the centre, or within the
\* radius, the boundary included
Within(f, p) ==
  IF f.shape = "rect"
  THEN 2 * Abs(p.x - f.x) <= f.width /\ 2 * Abs(p.y - f.y) <= f.height
  ELSE Dist2(p, f.x, f.y) <= f.radius * f.radius

\* C26: a field region applies a force to a body exactly when the body is
\* charged, non-static and within the region (boundary included), one force
\* per such region: q * magnitude * scale along the direction for an electric
\* region, q * (v_y * B, -v_x * B) * scale for a magnetic one, which is zero
\* at rest.
FieldActsOnChargesInside ==
  LET forces == EmForces(world.bodies, world.fields)
  IN \A k \in 1..Len(world.bodies), n \in 1..Len(world.fields) :
       LET b == world.bodies[k]
           f == world.fields[n]
           got == FieldBy(forces, k, f)
           q == b.meta.charge
       IN IF ~Uncharged(b) /\ ~b.isStatic /\ Within(f, b.position)
          THEN /\ Len(got) = 1
               /\ got[1].kind = f.kind
               /\ f.kind = "electric" =>
                    got[1].f = Vec(q * f.magnitude * ELECTRIC_FORCE_SCALE * f.dir.x,
                                   q * f.magnitude * ELECTRIC_FORCE_SCALE * f.dir.y)
               /\ f.kind = "magnetic" =>
                    /\ got[1].f = Vec(q * b.velocity.y * f.strength * MAGNETIC_FORCE_SCALE,
                                      -(q * b.velocity.x * f.strength * MAGNETIC_FORCE_SCALE))
                    /\ b.velocity = Pt(0, 0) => got[1].f = zero
          ELSE got = <<>>

\* a moving charge on the common boundary of an electric rectangle and a
\* magnetic disc has received a force from each
FieldActsOnChargesInsideWitness ==
  /\ probe.op = "em"
  /\ \E k \in ChargedSet :
        LET b == world.bodies[k]
        IN /\ b.position # Pt(0, 0)
           /\ b.velocity # Pt(0, 0)
           /\ \E n \in 1..Len(world.fields), o \in 1..Len(world.fields) :
                 /\ world.fields[n].kind = "electric"
                 /\ world.fields[o].kind = "magnetic"
                 /\ Within(world.fields[n], b.position)
                 /\ Within(world.fields[o], b.position)
                 /\ ~isPointInRegionOpen(world.fields[o], b.position)
           /\ b.id \in DOMAIN probe.breakdown
           /\ probe.breakdown[b.id].electric # zero
           /\ probe.breakdown[b.id].magnetic # zero

\* C27: the Coulomb force applied to a body for one pair is never larger than
\* COULOMB_MAX_FORCE, whatever the separation and the charges, and has the
\* direction of the force before clamping.
CoulombWithinCeiling ==
  LET forces == EmForces(world.bodies, world.fields)
  IN \A n \in 1..Len(forces) :
       LET e == forces[n]
           a == world.bodies[e.to]
           b == world.bodies[e.by]
           s == Sign(a.meta.charge) * Sign(b.meta.charge)
           raw == Pt(s * (a.position.x - b.position.x), s * (a.position.y - b.position.y))
       IN e.kind = "coulomb" =>
            /\ ~e.f.nan
            /\ Hypot(e.f.x, e.f.y) <= COULOMB_MAX_FORCE
            /\ raw # Pt(0, 0) => PointsAlong(e.f, raw)

ConversionsRoundTripAtAnyDelta ==
  LET x == probe.y
  IN /\ metersToWorld(worldToMeters(x)) = x
     /\ \A dt \in Deltas :
          /\ worldVelocityStepToMps(mpsToWorldVelocityBaseStep(x), dt) = x
          /\ worldAngularVelocityStepToRadps(radpsToWorldAngularVelocityBaseStep(x), dt) = x
          /\ ~dt.finite \/ dt.v.n <= 0 =>
               worldVelocityStepToMps(x, dt) = worldVelocityStepToMps(x, Delta(BASE_DELTA_MS))

\* C29: metersToWorld undoes worldToMeters; worldVelocityStepToMps applied to
\* mpsToWorldVelocityBaseStep(x) gives x times the nominal step duration over
\* the duration used, which is x when the duration is the nominal one or is
\* not finite and positive (it then counts as the nominal one); the angular
\* pair likewise.
ConversionsRoundTripAtBaseDelta ==
  LET x == probe.y
      base == RInt(BASE_DELTA_MS)
  IN /\ metersToWorld(worldToMeters(x)) = x
     /\ worldToMeters(metersToWorld(x)) = x
     /\ \A dt \in Deltas :
          LET used == IF dt.finite /\ dt.v.n > 0 THEN dt.v ELSE base
              scaled == RDiv(RMul(x, base), used)
          IN /\ worldVelocityStepToMps(mpsToWorldVelocityBaseStep(x), dt) = scaled
             /\ worldAngularVelocityStepToRadps(radpsToWorldAngularVelocityBaseStep(x), dt)
                  = scaled
             /\ used = base => scaled = x
             /\ ~dt.finite \/ dt.v.n <= 0 =>
                  /\ worldVelocityStepToMps(x, dt)
                       = worldVelocityStepToMps(x, Delta(BASE_DELTA_MS))
                  /\ worldAngularVelocityStepToRadps(x, dt)
                       = worldAngularVelocityStepToRadps(x, Delta(BASE_DELTA_MS))

\* a velocity was converted to the base step and back with a zero duration and
\* came out as it went in
ConversionsRoundTripAtBaseDeltaWitness ==
  /\ probe.op = "worldVelocityStepToMps"
  /\ probe.from = "mpsToWorldVelocityBaseStep"
  /\ probe.dt = Delta(0)
  /\ probe.x0.n # 0
  /\ probe.x # probe.x0
  /\ probe.y = probe.x0

\* the ids of all metadata records
MetaIds(w) == {w.heap[r].id : r \in 1..Len(w.heap)}

\* what C30 says of one ensure call r on an entity whose plugin entry was
\* ref before the call and is now after it; keepsId: the id of an existing
\* record must be unchanged
EnsureContract(w, ref, now, patch, r, keepsId) ==
  IF ref = NoRef
  THEN /\ r.ret # NoRef
       /\ now = r.ret
       /\ r.ret \notin 1..Len(w.heap)
       /\ r.w.heap[r.ret].id \notin MetaIds(w)
  ELSE /\ r.ret = ref
       /\ now = ref
       /\ Len(r.w.heap) = Len(w.heap)
       /\ r.w.heap[ref] = Assign(w.heap[ref], patch)
       /\ keepsId => r.w.heap[ref].id = w.heap[ref].id

\* what C30 says of get and find: nothing is created, and find gives the
\* first live entity with the id or null
LookupContract(w) ==
  /\ \A k \in 1..Len(w.bodies) :
        getBodyMeta(w, k).w = w /\ getBodyMeta(w, k).ret = w.bodies[k].plugin
  /\ \A k \in 1..Len(w.cons) :
        getConstraintMeta(w, k).w = w /\ getConstraintMeta(w, k).ret = w.cons[k].plugin
  /\ \A id \in MetaIds(w) \cup {ForeignId} :
        LET b == findLiveBodyByMetaId(w, id)
            c == findConstraintByMetaId(w, id)
            isBody(k) == /\ k \in Range(w.liveBodies)
                         /\ w.bodies[k].plugin # NoRef
                         /\ w.heap[w.bodies[k].plugin].id = id
            isCon(k) == /\ k \in Range(w.liveCons)
                        /\ w.cons[k].plugin # NoRef
                        /\ w.heap[w.cons[k].plugin].id = id
        IN /\ b.w = w
           /\ c.w = w
           /\ IF \E k \in 1..Len(w.bodies) : isBody(k) THEN isBody(b.ret) ELSE b.ret = NoRef
           /\ IF \E k \in 1..Len(w.cons) : isCon(k) THEN isCon(c.ret) ELSE c.ret = NoRef

StaleBodySelection ==
  /\ selected.kind = "body"
  /\ selected.id \notin Range(worldBodies)
  /\ \A i \in 1..Len(selectedBodyIds) : selectedBodyIds[i] \notin Range(worldBodies)

\* C31: when the selected body ids resolve to no live body, deleteSelected,
\* copySelected and duplicateSelected add and remove nothing (the bodies, the
\* constraints and the fields stay as they are, copy and duplicate change
\* nothing at all), and deleteSelected leaves the selection none with an
\* empty list of selected body ids.
StaleSelectionDegrades ==
  StaleBodySelection =>
    /\ Entities(deleteSelected(Machine).sc) = Entities(Scene)
    /\ SelectionOf(deleteSelected(Machine).sc) = [selected |-> SelNone, selectedBodyIds |-> <<>>]
    /\ copySelected(Machine) = Machine
    /\ duplicateSelected(Machine) = Machine

\* Delete was pressed on a selected body that was not in the world any more
StaleSelectionDegradesWitness ==
  /\ hist.src = "deleteSelected"
  /\ hist.pre.sel.selected.kind = "body"
  /\ hist.pre.sel.selected.id \notin DOMAIN hist.pre.ent.bodies
  /\ hist.post.ent = hist.pre.ent
  /\ selected = SelNone
  /\ selectedBodyIds = <<>>

\* C40: a deleteSelected call in which no selected id resolves to a live body
\* leaves the undo stack and the redo stack as they are.
StaleDeleteKeepsHistory ==
  StaleBodySelection => deleteSelected(Machine).h = History

\* ------------------------------------------- gestures on removed entities
\* the gesture in flight names a body or a field that is not in the world
GestureTargetRemoved ==
  LET i == interaction
  IN \/ i.kind \in {"rotate_body", "resize_body"} /\ i.bodyId \notin Range(worldBodies)
     \/ i.kind = "move_selection" /\ i.primaryId \notin Range(worldBodies)
                                  /\ \A k \in 1..Len(i.starts) : i.starts[k].id \notin Range(worldBodies)
     \/ i.kind = "constraint" /\ i.startBody \notin Range(worldBodies)
     \/ i.kind \in {"move_field", "resize_field"} /\ FieldIndex(fields, i.fieldId) < 0

\* C32: once the body or the field of the gesture in flight is removed, the
\* moves and the release of its pointer change no body, constraint or field,
\* add nothing, push nothing on the undo stack and leave the redo stack, and
\* the release leaves no interaction.
RemovedTargetAborts ==
  GestureTargetRemoved =>
    /\ \A p \in MovePts :
         LET mv == onPointerMove(Machine, interaction.pointerId, p)
         IN Entities(mv.sc) = Entities(Scene) /\ mv.h = History
    /\ \A p \in UpPts :
         LET up == onPointerUp(Machine, interaction.pointerId, p)
         IN /\ Entities(up.sc) = Entities(Scene)
            /\ up.h = History
            /\ up.inter = NoInteraction

\* C39: every constraint of the world is attached to bodies of the world: its
\* first end is a live body and its second end is a live body or a fixed point.
ConstraintsAttached ==
  \A c \in Range(worldCons) :
    /\ conObj[c].a \in Range(worldBodies)
    /\ conObj[c].b \in Range(worldBodies) \cup {NoId}

\* C38: the primary selection and the list of selected body ids agree: the
\* primary selection is a body exactly when the list is not empty, the id of
\* the primary body is then in the list, the list holds no id twice, and the
\* list is empty when the primary selection is a field or none.
SelectionAgrees ==
  /\ selected.kind = "body" <=> selectedBodyIds # <<>>
  /\ selected.kind = "body" => selected.id \in Range(selectedBodyIds)
  /\ \A i, j \in 1..Len(selectedBodyIds) : selectedBodyIds[i] = selectedBodyIds[j] => i = j
  /\ selected.kind \in {"field", "none"} => selectedBodyIds = <<>>

\* an edit made with two bodies selected was undone: the primary body of
\* before is selected again, alone in the list
SelectionAgreesWitness ==
  /\ hist.op = "commit_undo"
  /\ Len(hist.pre.sel.selectedBodyIds) = 2
  /\ selected = hist.pre.sel.selected
  /\ selectedBodyIds = <<selected.id>>

\* --------------------------------------------------- constraint endpoints
\* the distance between the two ends of a constraint tied to a fixed point
EndDistance(sc, c) == Abs(sc.bodyObj[sc.conObj[c].a].x - sc.conObj[c].pb)

\* C34: when the drag of a constraint endpoint is released, the length of
\* the constraint is the distance between its two ends at that moment.
RestLengthFollowsDrag ==
  interaction.kind = "drag_constraint_anchor" =>
    \A p \in UpPts :
      LET up == onPointerUp(Machine, interaction.pointerId, p)
      IN up.sc.conObj[interaction.constraint].len = EndDistance(up.sc, interaction.constraint)

\* ------------------------------------------------------ ropes in the step
\* the stiffness a constraint is created with, in hundredths: a rod 1, a
\* spring 0.03, a rope link 0.9
CreatedStiffness(kind) ==
  CASE kind = "rod" -> 100
    [] kind = "spring" -> 3
    [] kind = "rope" -> 90

\* the distance between the two ends of a constraint of the world
Separation(sc, c) ==
  LET con == sc.conObj[c]
  IN IF con.b = NoId THEN EndDistance(sc, c)
     ELSE Abs(sc.bodyObj[con.a].x - sc.bodyObj[con.b].x)

\* what Matter.Engine.update solves a constraint with in a frame: the frame
\* callback applies the field forces and the conveyors and then updates the
\* engine, and assigns neither the stiffness nor the length of a constraint
SolvedConstraint(sc, c) ==
  [stiffness |-> CreatedStiffness(sc.conObj[c].kind), length |-> sc.conObj[c].len]

\* C33: in every step a rope link whose ends are further apart than its rest
\* length is solved with a stiffness that is not zero and with its rest
\* length, and a link whose ends are not further apart is solved with
\* stiffness zero and with the distance of its ends as length.
RopeTensionOnly ==
  \A c \in Range(worldCons) :
    conObj[c].kind = "rope" =>
      LET d == Separation(Scene, c)
          solved == SolvedConstraint(Scene, c)
      IN /\ d > conObj[c].len => solved.stiffness # 0 /\ solved.length = conObj[c].len
         /\ d <= conObj[c].len => solved.stiffness = 0 /\ solved.length = d

\* ------------------------------------------------- springs in axis mode
\* One constraint with the inspector open on it.  Stiffness and damping are
\* in hundredths, lengths in pixels; the mode of a constraint whose metadata
\* has no mode yet is NoMode.
NoMode == "unset"

\* the damping a constraint is created with, in hundredths
CreatedDamping(kind) ==
  CASE kind = "rod" -> 0
    [] kind = "spring" -> 8
    [] kind = "rope" -> 2

\* ensureConstraintMeta on a constraint just created: the metadata copies the
\* stiffness, the damping and the length of the constraint
NewConstraintMeta(kind, len) ==
  [kind |-> kind, mode |-> NoMode, stiffness |-> CreatedStiffness(kind),
   damping |-> CreatedDamping(kind), restLength |-> len]

\* the effect run by the inspector when it is shown for a constraint
InspectorState(meta) ==
  [kind |-> meta.kind, mode |-> IF meta.mode = NoMode THEN "distance" ELSE meta.mode]

\* const axisSpring = kind === "spring" && mode === "axis", of the inspector's state
axisSpring(ui) == ui.kind = "spring" /\ ui.mode = "axis"

captureConstraintState(w) == [meta |-> w.meta]

applyLength(w, next) ==
  [w EXCEPT !.meta.restLength = next, !.raw.length = next]

applyStiffness(w, v) ==
  [w EXCEPT !.meta.stiffness = v,
            !.raw.stiffness = IF ~axisSpring(w.ui) THEN v ELSE @]

applyDamping(w, v) ==
  [w EXCEPT !.meta.damping = v,
            !.raw.damping = IF ~axisSpring(w.ui) THEN v ELSE @]

\* the axis is taken along the ends as they are; the rest length becomes the
\* distance between them
applyMode(w, nextMode) ==
  IF w.ui.kind = "spring" /\ nextMode = "axis"
  THEN [w EXCEPT !.meta.mode = nextMode, !.ui.mode = nextMode,
                 !.meta.restLength = w.sep,
                 !.raw = [stiffness |-> 0, damping |-> 0, length |-> w.sep]]
  ELSE [w EXCEPT !.meta.mode = nextMode, !.ui.mode = nextMode,
                 !.raw = [stiffness |-> w.meta.stiffness, damping |-> w.meta.damping,
                          length |-> w.meta.restLength]]

\* Object.assign(meta, state.meta): a saved metadata without a mode leaves
\* the mode as it is
applyConstraintState(w, state) ==
  LET meta == [state.meta EXCEPT !.mode = IF @ = NoMode THEN w.meta.mode ELSE @]
      axis == meta.kind = "spring" /\ meta.mode = "axis"
  IN [w EXCEPT !.meta = meta,
               !.raw = [stiffness |-> IF axis THEN 0 ELSE meta.stiffness,
                        damping |-> IF axis THEN 0 ELSE meta.damping,
                        length |-> meta.restLength]]

MaxSpringEdits == 3
SliderSteps == {0, 50, 100}
LengthSteps == {40, 80}

\* a rod or a spring of 40 px tied to a fixed point, its ends 40 or 60 px
\* apart, selected, with the inspector shown
InitSpring ==
  /\ StartEditor(InitMachine)
  /\ scope = BaseScope
  /\ settings = [snapEnabled |-> FALSE, snapStep |-> DefaultSnapStep, isRunning |-> FALSE]
  /\ settingsRef = [isRunning |-> FALSE]
  /\ stepRequested = FALSE
  /\ frame = NoFrame
  /\ probe = NoProbe
  /\ \E kind \in {"rod", "spring"}, sep \in {40, 60} :
       world = [raw |-> [stiffness |-> CreatedStiffness(kind), damping |-> CreatedDamping(kind),
                         length |-> 40],
                meta |-> NewConstraintMeta(kind, 40),
                ui |-> InspectorState(NewConstraintMeta(kind, 40)),
                sep |-> sep, saved |-> {}, edits |-> 0]

\* beginEdit, the edit, commitEdit: the states before and after the edit go
\* to the history
InspectorEdit(op, w2) ==
  /\ world' = [w2 EXCEPT !.saved = @ \cup {captureConstraintState(world),
                                           captureConstraintState(w2)},
                         !.edits = @ + 1]
  /\ probe' = [op |-> op, before |-> world]
  /\ UNCHANGED <<editorVars, settings, settingsRef, stepRequested, frame>>

ApplyMode ==
  \E nextMode \in {"distance", "axis"} :
    /\ world.edits < MaxSpringEdits
    /\ world.ui.kind = "spring"
    /\ InspectorEdit("applyMode", applyMode(world, nextMode))

ApplyStiffness ==
  \E v \in SliderSteps :
    /\ world.edits < MaxSpringEdits
    /\ InspectorEdit("applyStiffness", applyStiffness(world, v))

ApplyDamping ==
  \E v \in SliderSteps :
    /\ world.edits < MaxSpringEdits
    /\ InspectorEdit("applyDamping", applyDamping(world, v))

ApplyLength ==
  \E next \in LengthSteps :
    /\ world.edits < MaxSpringEdits
    /\ InspectorEdit("applyLength", applyLength(world, next))

\* undo or redo of an inspector edit: a state of the history is applied to
\* the constraint; the inspector stays as it is
ApplyConstraintState ==
  \E state \in world.saved :
    /\ world' = applyConstraintState(world, state)
    /\ probe' = [op |-> "applyConstraintState", before |-> world]
    /\ UNCHANGED <<editorVars, settings, settingsRef, stepRequested, frame>>

\* the constraint is selected again: the inspector reads the metadata
Reselect ==
  /\ world.ui # InspectorState(world.meta)
  /\ world' = [world EXCEPT !.ui = InspectorState(world.meta)]
  /\ probe' = [op |-> "select", before |-> world]
  /\ UNCHANGED <<editorVars, settings, settingsRef, stepRequested, frame>>

NextSpring ==
  \/ ApplyMode
  \/ ApplyStiffness
  \/ ApplyDamping
  \/ ApplyLength
  \/ ApplyConstraintState
  \/ Reselect

SpecSpring == InitSpring /\ [][NextSpring]_vars

\* C35: a constraint whose metadata says spring in axis mode has stiffness 0
\* and damping 0 on the engine constraint, after applyConstraintState and
\* after every edit of the inspector; switching to distance mode gives the
\* engine constraint the stiffness, the damping and the rest length of the
\* metadata.
AxisSpringSolverOff ==
  /\ world.meta.kind = "spring" /\ world.meta.mode = "axis"
       => world.raw.stiffness = 0 /\ world.raw.damping = 0
  /\ world.ui.kind = "spring" =>
       LET r == applyMode(world, "distance")
       IN r.raw = [stiffness |-> r.meta.stiffness, damping |-> r.meta.damping,
                   length |-> r.meta.restLength]

\* ------------------------------------------------------------ drawing tools
\* every drawing tool on an empty canvas; a draw is dragged along the line to
\* the lattice points or by one of DrawSteps: just short of the least length
\* of a track, that length, and a length above every minimum of a tool
DrawSteps == {MinTrackLen - 1, MinTrackLen, MinFieldW + GridPx}

InitDraw ==
  /\ StartFrom(InitMachine)
  /\ scope = [BaseScope EXCEPT !.tools = DrawTools, !.far = DrawSteps,
                               !.bodies = DrawBodies,
                               !.commits = DrawCommits, !.gestures = DrawGestures]

NextDraw ==
  \/ PointerDown
  \/ PointerMove
  \/ PointerUp
  \/ SetTool
  \/ UndoKey
  \/ RedoKey

SpecDraw == InitDraw /\ [][NextDraw]_vars

\* the tools whose draw is clamped, and the least radius, width and height
\* each of them gives what it creates (0 where the shape has no such extent)
ClampedTools == DrawTools \ {"track"}

ToolMinimum(t) ==
  CASE t = "circle" -> [r |-> MinCircleR, w |-> 0, h |-> 0]
    [] t = "polygon" -> [r |-> MinPolygonR, w |-> 0, h |-> 0]
    [] t = "slope" -> [r |-> 0, w |-> MinSlopeLen, h |-> SlopeThickness]
    [] t = "conveyor" -> [r |-> 0, w |-> MinConveyorW, h |-> MinConveyorH]
    [] t \in {"rectangle", "wall"} -> [r |-> 0, w |-> MinBoxSize, h |-> MinBoxSize]
    [] t \in {"field_e_rect", "field_b_rect"} -> [r |-> 0, w |-> MinFieldW, h |-> MinFieldH]
    [] t \in {"field_e_circle", "field_b_circle"} -> [r |-> MinFieldRadius, w |-> 0, h |-> 0]

\* the extents of the bodies and fields of sc that are not in the current scene
NewExtents(sc) ==
  [b \in Range(sc.worldBodies) \ Range(worldBodies) |->
     [r |-> sc.bodyObj[b].r, w |-> sc.bodyObj[b].w, h |-> sc.bodyObj[b].h]]
NewFieldExtents(sc) ==
  {[r |-> sc.fields[k].radius, w |-> sc.fields[k].w, h |-> sc.fields[k].h] :
     k \in {j \in 1..Len(sc.fields) : FieldIndex(fields, sc.fields[j].id) < 0}}

\* C36: releasing a draw made with the circle, polygon, rectangle, wall,
\* slope, conveyor or a field tool commits exactly one new entity and one
\* history entry whatever the length of the drag, a drag of no length
\* included, and the entity has at least the tool's minimum extents (exactly
\* those for a drag of no length); releasing a track drawn shorter than
\* MinTrackLen creates nothing and leaves the undo and redo stacks as they were.
DrawCommitsOneOrNothing ==
  interaction.kind = "draw" =>
    \A p \in UpPts :
      LET i == interaction
          up == onPointerUp(Machine, i.pointerId, p)
          dx == i.currentWorld.x - i.startWorld.x
          dy == i.currentWorld.y - i.startWorld.y
          least == ToolMinimum(i.tool)
          made == {NewExtents(up.sc)[b] : b \in DOMAIN NewExtents(up.sc)}
                    \cup NewFieldExtents(up.sc)
      IN /\ i.tool \in ClampedTools =>
              /\ Len(up.log) = 1
              /\ up.h.undo = Append(undoStack, Last(up.h.undo))
              /\ Cardinality(DOMAIN NewExtents(up.sc)) + Cardinality(NewFieldExtents(up.sc)) = 1
              /\ Len(up.sc.worldBodies) + Len(up.sc.fields) = Len(worldBodies) + Len(fields) + 1
              /\ up.sc.worldCons = worldCons
              /\ \A b \in Range(worldBodies) :
                    b \in Range(up.sc.worldBodies) /\ up.sc.bodyObj[b] = bodyObj[b]
              /\ SubSeq(up.sc.fields, 1, Len(fields)) = fields
              /\ \A e \in made :
                    /\ e.r >= least.r /\ e.w >= least.w /\ e.h >= least.h
                    /\ dx = 0 /\ dy = 0 => e = least
         /\ i.tool = "track" /\ DragLength(dx, dy) < MinTrackLen =>
              /\ up.log = <<>>
              /\ up.h = History
              /\ Entities(up.sc) = Entities(Scene)

\* a wall narrower than every drag of the lattice that has a length has been
\* committed by the release of a draw: the drag had no length
DrawCommitsOneOrNothingWitness ==
  /\ hist.op = "commit"
  /\ hist.ev.type = "up"
  /\ hist.ev.kind = "draw"
  /\ tool = "wall"
  /\ selected.kind = "body"
  /\ selected.id \in Range(worldBodies)
  /\ bodyObj[selected.id].w = MinBoxSize
  /\ bodyObj[selected.id].h = MinBoxSize
  /\ \A d \in DrawSteps \cup {GridPx} : bodyObj[selected.id].w < d
  /\ Len(undoStack) = Len(hist.at.h.undo) + 1

\* --------------------------------------------------------------- lab scenes
\* metersToWorld of a number of tenths of a metre, in whole pixels
LabPx(tenths) ==
  LET r == metersToWorld(Rat(tenths, 10))
  IN r.n \div r.d

\* a Matter body a lab has just created: the engine's label, no metadata
LabBody(label, pos, isStatic) ==
  [label |-> label, plugin |-> NoRef, position |-> pos, isStatic |-> isStatic]

LabIds == {"charges"}

\* buildLabScene("charges"): the ground, the circles a and b with the
\* ensureBodyMeta calls of the code in their order, and the reference field
\* of magnitude 0
buildLabScene(labId) ==
  LET w0 == MetaWorld(<<LabBody("Rectangle Body", Pt(0, LabPx(37)), TRUE),
                        LabBody("Circle Body", Pt(LabPx(-16), LabPx(16)), FALSE),
                        LabBody("Circle Body", Pt(LabPx(16), LabPx(16)), FALSE)>>, <<>>)
      g == ensureBodyMeta(w0, 1, [label |-> "Ground"])
      ma == ensureBodyMeta(g.w, 2, [label |-> "Charge A", isCharged |-> TRUE, charge |-> 1])
      mb == ensureBodyMeta(ma.w, 3, [label |-> "Charge B", isCharged |-> TRUE, charge |-> -1])
  IN [w |-> mb.w,
      fields |-> <<[id |-> 1, kind |-> "electric", shape |-> "rect", x |-> 0, y |-> LabPx(12),
                    width |-> LabPx(70), height |-> LabPx(35), magnitude |-> 0,
                    dir |-> Pt(1, 0)]>>,
      selectBodyId |-> mb.w.heap[mb.ret].id]

\* the bodies of a lab scene as the engine steps them, each with its metadata
LabBodies(scene) ==
  [k \in 1..Len(scene.w.bodies) |->
     EmBody(k, scene.w.bodies[k].position, scene.w.bodies[k].isStatic,
            scene.w.heap[scene.w.bodies[k].plugin])]

\* no lab loaded: an empty world
InitLab ==
  /\ StartEditor(InitMachine)
  /\ scope = BaseScope
  /\ settings = [snapEnabled |-> FALSE, snapStep |-> DefaultSnapStep, isRunning |-> FALSE]
  /\ settingsRef = [isRunning |-> FALSE]
  /\ stepRequested = FALSE
  /\ frame = NoFrame
  /\ probe = NoProbe
  /\ world = [bodies |-> <<>>, fields |-> <<>>, far |-> Pt(0, 0), edits |-> 0, lab |-> "none"]

\* a lab is loaded into an empty world, or again over an edited one
LoadLab ==
  \E labId \in LabIds :
    /\ world.lab = "none" \/ world.edits > 0
    /\ world' = [world EXCEPT !.bodies = LabBodies(buildLabScene(labId)),
                              !.fields = buildLabScene(labId).fields,
                              !.lab = labId]
    /\ probe' = [op |-> "lab", lab |-> labId]
    /\ UNCHANGED <<editorVars, settings, settingsRef, stepRequested, frame>>

\* the first physics step of a lab just loaded
FirstStep ==
  /\ probe.op = "lab"
  /\ probe' = [op |-> "lab_step", lab |-> probe.lab]
                 @@ applyElectromagnetism(world.bodies, world.fields)
  /\ UNCHANGED <<editorVars, settings, settingsRef, stepRequested, frame, world>>

NextLab ==
  \/ LoadLab
  \/ FirstStep
  \/ InspectorSetCharge
  \/ InspectorSetIsCharged
  \/ InspectorSetStatic
  \/ ApplyEm

SpecLab == InitLab /\ [][NextLab]_vars

\* the bodies of the world whose metadata has the label
Labelled(label) ==
  SelectSeq([k \in 1..Len(world.bodies) |-> k], LAMBDA k : world.bodies[k].meta.label = label)

\* C37: the scene of the "charges" lab, as loaded, has exactly one body
\* labelled Charge A and one labelled Charge B, charged with +1 and -1, and
\* the first call of applyElectromagnetism pulls each of them towards the
\* other with a Coulomb force.
LabChargesAttract ==
  probe.op = "lab" /\ probe.lab = "charges" =>
    /\ Len(Labelled("Charge A")) = 1
    /\ Len(Labelled("Charge B")) = 1
    /\ LET a == Head(Labelled("Charge A"))
           b == Head(Labelled("Charge B"))
           step == applyElectromagnetism(world.bodies, world.fields)
           towardsB == world.bodies[b].position.x - world.bodies[a].position.x
       IN /\ world.bodies[a].meta.isCharged /\ world.bodies[a].meta.charge = 1
          /\ world.bodies[b].meta.isCharged /\ world.bodies[b].meta.charge = -1
          /\ ~step.bodies[a].force.nan /\ ~step.bodies[b].force.nan
          /\ step.bodies[a].force.x * towardsB > 0
          /\ step.bodies[b].force.x * towardsB < 0
          /\ world.bodies[a].id \in DOMAIN step.breakdown
          /\ step.breakdown[world.bodies[a].id].coulomb = step.bodies[a].force

====
